---- MODULE Spec2Model ----
(***************************************************************************)
(* HubWatcher: normalisation of Kiwi and eDreams search results into a     *)
(* common itinerary shape, the canonical itinerary identity, and the       *)
(* cross-source analysis of analyze_journey.                               *)
(*                                                                         *)
(* A Python string is a sequence of one-character strings, so that         *)
(* slicing (flight_code[:2], flight_code[2:]), concatenation and the       *)
(* formatting of numbers are computed as the code computes them.           *)
(***************************************************************************)
EXTENDS Integers, Sequences, FiniteSets, TLC

\* ------------------------------------------------------------------ bounds
\* raw Kiwi itineraries in one kiwi-response document
MaxKiwi == 2
\* raw eDreams itineraries in one edreams-response document
MaxEdo == 2
\* flight segments of the itinerary built in SpecId
MaxSegs == 4
\* entries of the two simplified files the plots are drawn from
MaxPlot == 2

\* ----------------------------------------------------------------- strings
Digit(d) ==
  CASE d = 0 -> "0" [] d = 1 -> "1" [] d = 2 -> "2" [] d = 3 -> "3"
    [] d = 4 -> "4" [] d = 5 -> "5" [] d = 6 -> "6" [] d = 7 -> "7"
    [] d = 8 -> "8" [] d = 9 -> "9"

DigitValue(c) ==
  CASE c = "0" -> 0 [] c = "1" -> 1 [] c = "2" -> 2 [] c = "3" -> 3
    [] c = "4" -> 4 [] c = "5" -> 5 [] c = "6" -> 6 [] c = "7" -> 7
    [] c = "8" -> 8 [] c = "9" -> 9

\* f"{n}" of a non-negative int
RECURSIVE Str(_)
Str(n) == IF n < 10 THEN <<Digit(n)>> ELSE Str(n \div 10) \o <<Digit(n % 10)>>

\* float(s) of a string of decimal digits
RECURSIVE ParseDigits(_, _)
ParseDigits(s, acc) ==
  IF s = <<>> THEN acc ELSE ParseDigits(Tail(s), 10 * acc + DigitValue(Head(s)))

\* sep.join(parts)
RECURSIVE Join(_, _)
Join(sep, parts) ==
  IF parts = <<>> THEN <<>>
  ELSE IF Len(parts) = 1 THEN parts[1]
  ELSE parts[1] \o sep \o Join(sep, Tail(parts))

\* "".join(parts)
RECURSIVE Concat(_)
Concat(parts) == IF parts = <<>> THEN <<>> ELSE Head(parts) \o Concat(Tail(parts))

\* s[:2] and s[2:]
Take2(s) == SubSeq(s, 1, IF Len(s) < 2 THEN Len(s) ELSE 2)
Drop2(s) == SubSeq(s, 3, Len(s))

\* d.get(k, default) of a dict modelled as a function
Get(d, k, default) == IF k \in DOMAIN d THEN d[k] ELSE default

Range(s) == {s[i] : i \in DOMAIN s}

\* [x for x in s if p(x)]: the entries of s at the indices of keep, in order
RECURSIVE Filter(_, _, _)
Filter(s, keep, i) ==
  IF i > Len(s) THEN <<>>
  ELSE (IF i \in keep THEN <<s[i]>> ELSE <<>>) \o Filter(s, keep, i + 1)

Dash == <<"-">>

\* ------------------------------------------------- Kiwi: mapper-kiwi.py
\* A raw Kiwi sector segment is [carrier, code, source, destination,
\* sourceTime, destinationTime]: segment.carrier.code, segment.code, the two
\* station codes and the two local times.
\* A raw Kiwi itinerary is [outbound, inbound, price]: the sectorSegments of
\* each direction and priceEur.amount.

\* the identity with the local departure time of every segment after its
\* flight code
generate_itinerary_id_timed(itinerary) ==
  LET sectors  == itinerary.outbound \o itinerary.inbound
      segments == [i \in DOMAIN sectors |->
                     sectors[i].carrier \o Dash \o sectors[i].code
                       \o <<sectors[i].sourceTime>>]
      carriers == {sectors[i].carrier : i \in DOMAIN sectors}
  IN  <<"s">> \o Str(Len(segments)) \o <<"-", "c">> \o Str(Cardinality(carriers))
        \o Dash \o Join(Dash, segments)

generate_itinerary_id(itinerary) ==
  LET sectors  == itinerary.outbound \o itinerary.inbound
      segments == [i \in DOMAIN sectors |->
                     sectors[i].carrier \o Dash \o sectors[i].code]
      carriers == {sectors[i].carrier : i \in DOMAIN sectors}
      segment_count == Len(segments)
      carrier_count == Cardinality(carriers)
  IN  <<"s">> \o Str(segment_count) \o <<"-", "c">> \o Str(carrier_count)
        \o Dash \o Join(Dash, segments)

KiwiSegment(segment) ==
  [sourceStationId      |-> segment.source,
   destinationStationId |-> segment.destination,
   departureLocalTime   |-> segment.sourceTime,
   arrivalLocalTime     |-> segment.destinationTime,
   flightCode           |-> segment.code,
   carrierCode          |-> segment.carrier]

\* the price of a record whose raw itinerary has no priceEur.amount: null
None == <<"None">>

simplify_kiwi_itinerary(itinerary) ==
  [id       |-> generate_itinerary_id(itinerary),
   price    |-> Get(itinerary, "price", None),
   outbound |-> [i \in DOMAIN itinerary.outbound |-> KiwiSegment(itinerary.outbound[i])],
   inbound  |-> [i \in DOMAIN itinerary.inbound |-> KiwiSegment(itinerary.inbound[i])]]

simplify_kiwi_json(itineraries) ==
  [i \in DOMAIN itineraries |-> simplify_kiwi_itinerary(itineraries[i])]

\* ------------------------------- eDreams: analysis-combined.py (mapper part)
\* The legend of a raw eDreams document: segment_map maps a segment id to
\* [sections, carrier] (the section ids of segment.sections, and
\* segment.carrier, 0 when absent), section_map maps a section id to
\* [from, to, flightCode], location_map maps a geoNodeId to an IATA code.
\* A raw eDreams itinerary is [firstSegments, secondSegments, sortPrice, fee].

\* sec = {}: no from and no to (geoNodeId 0 stands for None, which no
\* location has), empty dates and an empty flight code
EmptySection ==
  [from |-> 0, to |-> 0, departureDate |-> "", arrivalDate |-> "",
   flightCode |-> <<>>]

process_section(seg_obj, section_id, section_map, location_map) ==
  LET sec            == Get(section_map, section_id, EmptySection)
      flight_code    == sec.flightCode
      from_flight    == IF flight_code # <<>> THEN Take2(flight_code) ELSE <<>>
      carrier_code   == IF from_flight = <<>> /\ seg_obj.carrier # 0
                        THEN Str(seg_obj.carrier) ELSE from_flight
  IN  [sourceStationId      |-> Get(location_map, sec.from, ""),
       destinationStationId |-> Get(location_map, sec.to, ""),
       departureLocalTime   |-> sec.departureDate,
       arrivalLocalTime     |-> sec.arrivalDate,
       flightCode           |-> flight_code,
       carrierCode          |-> carrier_code]

RECURSIVE process_segments(_, _, _, _)
process_segments(segment_ids, segment_map, section_map, location_map) ==
  IF segment_ids = <<>> THEN <<>>
  ELSE LET seg_id == Head(segment_ids)
           rest   == process_segments(Tail(segment_ids), segment_map,
                                      section_map, location_map)
       IN  IF seg_id \notin DOMAIN segment_map THEN rest
           ELSE LET seg_obj     == segment_map[seg_id]
                    section_ids == seg_obj.sections
                IN  [i \in DOMAIN section_ids |->
                       process_section(seg_obj, section_ids[i], section_map,
                                       location_map)] \o rest

generate_edreams_itinerary_id(segments, section_count) ==
  LET carriers        == {segments[i].carrierCode : i \in DOMAIN segments}
      carrier_count   == Cardinality(carriers)
      segment_details == [i \in DOMAIN segments |->
                            Dash \o segments[i].carrierCode \o Dash
                              \o Drop2(segments[i].flightCode)]
  IN  <<"s">> \o Str(section_count) \o <<"-", "c">> \o Str(carrier_count)
        \o Concat(segment_details)

RECURSIVE count_sections(_, _)
count_sections(raw_segment_ids, segment_map) ==
  IF raw_segment_ids = <<>> THEN 0
  ELSE (IF Head(raw_segment_ids) \in DOMAIN segment_map
        THEN Len(segment_map[Head(raw_segment_ids)].sections) ELSE 0)
       + count_sections(Tail(raw_segment_ids), segment_map)

simplify_edreams_itinerary(itinerary, segment_map, section_map, location_map) ==
  LET outbound_ids      == itinerary.firstSegments
      inbound_ids       == itinerary.secondSegments
      section_count     == count_sections(outbound_ids \o inbound_ids, segment_map)
      outbound_segments == process_segments(outbound_ids, segment_map,
                                            section_map, location_map)
      inbound_segments  == process_segments(inbound_ids, segment_map,
                                            section_map, location_map)
      all_segments      == outbound_segments \o inbound_segments
      membership_fee    == Get(itinerary, "fee", 0)
      prime_price       == itinerary.sortPrice + membership_fee
  IN  [id       |-> generate_edreams_itinerary_id(all_segments, section_count),
       price    |-> prime_price,
       outbound |-> outbound_segments,
       inbound  |-> inbound_segments]

simplify_edreams_json(itineraries, segment_map, section_map, location_map) ==
  [i \in DOMAIN itineraries |->
     simplify_edreams_itinerary(itineraries[i], segment_map, section_map,
                                location_map)]

\* ------------------------------------------ eDreams: test7/mapper-edo.py
\* The same mapper, except that process_segments stores the flight code
\* without its first two characters and the identity uses it as stored.

process_section_t7(seg_obj, section_id, section_map, location_map) ==
  LET full == process_section(seg_obj, section_id, section_map, location_map)
  IN  [full EXCEPT !.flightCode = Drop2(full.flightCode)]

RECURSIVE process_segments_t7(_, _, _, _)
process_segments_t7(segment_ids, segment_map, section_map, location_map) ==
  IF segment_ids = <<>> THEN <<>>
  ELSE LET seg_id == Head(segment_ids)
           rest   == process_segments_t7(Tail(segment_ids), segment_map,
                                         section_map, location_map)
       IN  IF seg_id \notin DOMAIN segment_map THEN rest
           ELSE LET seg_obj     == segment_map[seg_id]
                    section_ids == seg_obj.sections
                IN  [i \in DOMAIN section_ids |->
                       process_section_t7(seg_obj, section_ids[i], section_map,
                                          location_map)] \o rest

generate_edreams_itinerary_id_t7(segments, section_count) ==
  LET carriers        == {segments[i].carrierCode : i \in DOMAIN segments}
      carrier_count   == Cardinality(carriers)
      segment_details == [i \in DOMAIN segments |->
                            Dash \o segments[i].carrierCode \o Dash
                              \o segments[i].flightCode]
  IN  <<"s">> \o Str(section_count) \o <<"-", "c">> \o Str(carrier_count)
        \o Concat(segment_details)

simplify_edreams_itinerary_t7(itinerary, segment_map, section_map, location_map) ==
  LET outbound_ids      == itinerary.firstSegments
      inbound_ids       == itinerary.secondSegments
      section_count     == count_sections(outbound_ids \o inbound_ids, segment_map)
      outbound_segments == process_segments_t7(outbound_ids, segment_map,
                                               section_map, location_map)
      inbound_segments  == process_segments_t7(inbound_ids, segment_map,
                                               section_map, location_map)
      all_segments      == outbound_segments \o inbound_segments
  IN  [id       |-> generate_edreams_itinerary_id_t7(all_segments, section_count),
       price    |-> itinerary.sortPrice,
       outbound |-> outbound_segments,
       inbound  |-> inbound_segments]

simplify_edreams_json_t7(itineraries, segment_map, section_map, location_map) ==
  [i \in DOMAIN itineraries |->
     simplify_edreams_itinerary_t7(itineraries[i], segment_map, section_map,
                                   location_map)]

\* ------------------------------------------ eDreams: pruebas/mapper-edo.py
\* The key-based mapper: an itinerary lists segment keys such as "0,KL12";
\* each comma-separated part other than "0" is a flight, carrier first.

\* s.split(",")
RECURSIVE SplitComma(_, _)
SplitComma(s, cur) ==
  IF s = <<>> THEN <<cur>>
  ELSE IF Head(s) = "," THEN <<cur>> \o SplitComma(Tail(s), <<>>)
  ELSE SplitComma(Tail(s), Append(cur, Head(s)))

key_segments(segment_key, segments_map) ==
  LET parts   == SplitComma(segment_key, <<>>)
      segment == Get(segments_map, segment_key,
                     [departureStationCode |-> "", arrivalStationCode |-> "",
                      departureDateTime |-> "", arrivalDateTime |-> ""])
      Kept(i) == parts[i] # <<"0">>
      kept    == Filter(parts, {i \in DOMAIN parts : Kept(i)}, 1)
  IN  [i \in DOMAIN kept |->
         [sourceStationId      |-> segment.departureStationCode,
          destinationStationId |-> segment.arrivalStationCode,
          departureLocalTime   |-> segment.departureDateTime,
          arrivalLocalTime     |-> segment.arrivalDateTime,
          flightCode           |-> Drop2(kept[i]),
          carrierCode          |-> Take2(kept[i])]]

RECURSIVE keys_segments(_, _)
keys_segments(all_segment_keys, segments_map) ==
  IF all_segment_keys = <<>> THEN <<>>
  ELSE key_segments(Head(all_segment_keys), segments_map)
         \o keys_segments(Tail(all_segment_keys), segments_map)

generate_edreams_itinerary_id_pruebas(segments) ==
  LET segment_count   == Len(segments)
      carriers        == {segments[i].carrierCode : i \in DOMAIN segments}
      carrier_count   == Cardinality(carriers)
      segment_details == [i \in DOMAIN segments |->
                            Dash \o segments[i].carrierCode \o Dash
                              \o segments[i].flightCode]
  IN  <<"s">> \o Str(segment_count) \o <<"-", "c">> \o Str(carrier_count)
        \o Concat(segment_details)

simplify_edreams_itinerary_pruebas(itinerary, segments_map) ==
  LET all_segment_keys == itinerary.firstSegmentsKeys \o itinerary.secondSegmentsKeys
                            \o itinerary.thirdSegmentsKeys
                            \o itinerary.fourthSegmentsKeys
      segments      == keys_segments(all_segment_keys, segments_map)
      key_repr(i)   == <<"0", ",">> \o segments[i].carrierCode \o segments[i].flightCode
      IsOut(i)      == key_repr(i) \in Range(itinerary.firstSegmentsKeys)
      IsIn(i)       == ~IsOut(i) /\ key_repr(i) \in Range(itinerary.secondSegmentsKeys)
  IN  [id       |-> generate_edreams_itinerary_id_pruebas(segments),
       price    |-> itinerary.sortPrice,
       outbound |-> Filter(segments, {i \in DOMAIN segments : IsOut(i)}, 1),
       inbound  |-> Filter(segments, {i \in DOMAIN segments : IsIn(i)}, 1)]

\* ------------------------------- analysis-combined.py, lines 149-159
\* max(a, b)
Max2(a, b) == IF a < b THEN b ELSE a

\* the count without the tests len(...) > 0 of lines 157-158
compute_hub_count_unguarded(itin) ==
  Max2(Len(itin.outbound) - 1, Len(itin.inbound) - 1)

compute_hub_count(itin) ==
  LET hubs_outbound == IF Len(itin.outbound) > 0 THEN Len(itin.outbound) - 1 ELSE 0
      hubs_inbound  == IF Len(itin.inbound) > 0 THEN Len(itin.inbound) - 1 ELSE 0
  IN  Max2(hubs_outbound, hubs_inbound)

\* ------------------------------------------------------------- the state
VARIABLES
  \* SpecId: one physical itinerary in the raw format of each source
  trip,          \* [out, in]: its (carrier, number) pairs, outbound and inbound
  raw_kiwi,      \* the itinerary as an element of Kiwi's itineraries
  raw_edo,       \* [itinerary, segment_map, section_map]: as eDreams' legend form
  raw_keys,      \* the itinerary in eDreams' key form
  ids,           \* the identity each mapper gave it
  records,       \* the record each mapper wrote for it
  twin,          \* the same flights at another price, station and time,
                 \* and the identity each mapper gave them
  idpc,          \* "build" | "done" | "counted"
  hub_count      \* compute_hub_count of the Kiwi record of the itinerary

idvars == <<trip, raw_kiwi, raw_edo, raw_keys, ids, records, twin, idpc, hub_count>>

\* the analysis pipeline
VARIABLES
  kiwi_response,    \* itineraries of kiwi-response.json
  edreams_response, \* itineraryResults of edreams-response.json
  kiwi_data,        \* kiwi-simplified.json
  edreams_data,     \* edreams-simplified.json
  pc,               \* the step to run next, "done" or "error"
  error,            \* the exception that ended analyze_journey
  failed_at,        \* the step it was raised in
  edreams_mapper,   \* the script that wrote edreams_data
  a2,               \* what analysis2.py computed
  unique_kiwi,
  total_unique_kiwi,
  kiwi_itinerary_ids,
  edreams_itinerary_ids,
  repeated_itineraries,
  missing_in_edreams,
  cheapest,         \* lines 209-218 of analyze_journey
  compare,          \* lines 220-241
  overall,          \* lines 243-249
  hubs,             \* lines 251-344
  hub_breakdown,    \* lines 281-308
  flights,          \* lines 346-391
  cheap,            \* lines 393-429
  carriers,         \* lines 431-449
  distribution      \* lines 451-460

inputvars == <<kiwi_response, edreams_response, kiwi_data, edreams_data,
               edreams_mapper>>
setvars == <<unique_kiwi, total_unique_kiwi, kiwi_itinerary_ids,
             edreams_itinerary_ids, repeated_itineraries, missing_in_edreams>>
latevars == <<hubs, hub_breakdown, flights, cheap, carriers, distribution>>
stagevars == <<cheapest, compare, overall, latevars>>
mainvars == <<inputvars, pc, error, failed_at, a2, setvars, stagevars>>

\* the section and carrier plots
VARIABLES
  plot_data,        \* [kiwi, edreams]: the entries of the two simplified files
  plot,             \* the lists of values the plots are drawn from
  plotpc            \* "load" | "carriers" | "analysis2" | "done"

plotvars == <<plot_data, plot, plotpc>>

\* the fetch sessions of selenium-multisearch.py
VARIABLES
  futures,          \* the submitted calls, in submission order: [idx, output_prefix]
  session,          \* the position of each call in search_and_save
  files,            \* file name -> [writers, content]: who opened it, whose response it holds
  collected,        \* the futures the as_completed loop has taken
  reported,         \* the futures whose exception the loop printed
  main              \* "submit" | "collect" | "exit"

poolvars == <<futures, session, files, collected, reported, main>>

vars == <<idvars, mainvars, plotvars, poolvars>>

\* --------------------------------------------------------------- SpecId
KL == <<"K", "L">>
FR == <<"F", "R">>
Carriers == {KL, FR}
FlightNumbers == {<<"1", "2">>, <<"7">>}

NoIds == [kiwi |-> <<>>, edo |-> <<>>, t7 |-> <<>>, pruebas |-> <<>>]

\* eDreams segment 1 is the outbound leg and segment 2 the inbound leg
KiwiSector(c, n) ==
  [carrier |-> c, code |-> n, source |-> "", destination |-> "",
   sourceTime |-> "", destinationTime |-> ""]
EdoSection(c, n) == [EmptySection EXCEPT !.flightCode = c \o n]
EdoKey(c, n)     == <<"0", ",">> \o c \o n

\* a key list with one more flight: under a key of its own, or as one more
\* comma-separated part of the last key of the list
AddKey(keys, c, n, joined) ==
  IF joined /\ keys # <<>>
  THEN [keys EXCEPT ![Len(keys)] = @ \o <<",">> \o c \o n]
  ELSE Append(keys, EdoKey(c, n))

\* a response writes its keys one way throughout, one key per flight or one
\* key per leg: the ways the next flight of an itinerary may be written
KeyStyles(itinerary) ==
  LET keys == itinerary.firstSegmentsKeys \o itinerary.secondSegmentsKeys
  IN  IF \E i \in DOMAIN keys : Len(SplitComma(keys[i], <<>>)) > 2 THEN {TRUE}
      ELSE IF Len(itinerary.firstSegmentsKeys) > 1
                \/ Len(itinerary.secondSegmentsKeys) > 1 THEN {FALSE}
      ELSE BOOLEAN

\* the environment: the same flight appears in the response of each source
AddOutbound(c, n, joined) ==
  /\ idpc = "build"
  /\ trip.in = <<>>
  /\ Len(trip.out) + Len(trip.in) < MaxSegs
  /\ LET k == Len(raw_edo.section_map) + 1
     IN  /\ trip' = [trip EXCEPT !.out = Append(@, <<c, n>>)]
         /\ raw_kiwi' = [raw_kiwi EXCEPT !.outbound = Append(@, KiwiSector(c, n))]
         /\ raw_edo' = [raw_edo EXCEPT
                          !.section_map = Append(@, EdoSection(c, n)),
                          !.segment_map[1].sections = Append(@, k)]
         /\ raw_keys' = [raw_keys EXCEPT !.firstSegmentsKeys = AddKey(@, c, n, joined)]
  /\ UNCHANGED <<ids, records, twin, idpc, hub_count>>
  /\ UNCHANGED <<mainvars, plotvars, poolvars>>

AddInbound(c, n, joined) ==
  /\ idpc = "build"
  /\ Len(trip.out) + Len(trip.in) < MaxSegs
  /\ LET k == Len(raw_edo.section_map) + 1
     IN  /\ trip' = [trip EXCEPT !.in = Append(@, <<c, n>>)]
         /\ raw_kiwi' = [raw_kiwi EXCEPT !.inbound = Append(@, KiwiSector(c, n))]
         /\ raw_edo' = [raw_edo EXCEPT
                          !.section_map = Append(@, EdoSection(c, n)),
                          !.segment_map[2].sections = Append(@, k)]
         /\ raw_keys' = [raw_keys EXCEPT !.secondSegmentsKeys = AddKey(@, c, n, joined)]
  /\ UNCHANGED <<ids, records, twin, idpc, hub_count>>
  /\ UNCHANGED <<mainvars, plotvars, poolvars>>

\* what a raw itinerary carries besides its flights: a price, the geoNodeId
\* of a station (0 for none) and a local time. The twins of an itinerary
\* priced 1 with no station and no time: one field differs, or all three do
Twins ==
  {[price |-> 240, station |-> 0,  time |-> ""],
   [price |-> 1,   station |-> 11, time |-> ""],
   [price |-> 1,   station |-> 0,  time |-> "08:00"],
   [price |-> 240, station |-> 11, time |-> "08:00"]}
\* the location map of the twin: geoNodeId 11 is Madrid
twin_locations == (11 :> "MAD")

\* the raw Kiwi itinerary with the same sector segments at price p, every
\* station being the one of geoNodeId g and every time being t
kiwi_twin(itinerary, p, g, t) ==
  LET Moved(sectors) ==
        [i \in DOMAIN sectors |->
           [sectors[i] EXCEPT !.source = Get(twin_locations, g, ""),
                              !.destination = Get(twin_locations, g, ""),
                              !.sourceTime = t, !.destinationTime = t]]
  IN  [outbound |-> Moved(itinerary.outbound),
       inbound  |-> Moved(itinerary.inbound),
       price    |-> Str(p)]

\* the sections of an eDreams legend with the same flight codes between
\* the stations of geoNodeId g at time t
sections_twin(sections, g, t) ==
  [k \in DOMAIN sections |->
     [sections[k] EXCEPT !.from = g, !.to = g,
                         !.departureDate = t, !.arrivalDate = t]]

\* the segmentsMap of a key-based eDreams response: every key of the
\* itinerary between the stations of geoNodeId g at time t
segments_map_twin(itinerary, g, t) ==
  [key \in Range(itinerary.firstSegmentsKeys \o itinerary.secondSegmentsKeys) |->
     [departureStationCode |-> Get(twin_locations, g, ""),
      arrivalStationCode   |-> Get(twin_locations, g, ""),
      departureDateTime    |-> t,
      arrivalDateTime      |-> t]]

\* each mapper run on its own raw form of the itinerary, and on the raw
\* form of the same flights at another price, station and time
RunMappers ==
  /\ idpc = "build"
  /\ \E v \in Twins :
      LET p == v.price
          g == v.station
          t == v.time
      IN
       twin' =
         [price |-> p, station |-> g, time |-> t,
          ids |->
            [kiwi    |-> simplify_kiwi_itinerary(kiwi_twin(raw_kiwi, p, g, t)).id,
             edo     |-> simplify_edreams_itinerary(
                            [raw_edo.itinerary EXCEPT !.sortPrice = p],
                            raw_edo.segment_map,
                            sections_twin(raw_edo.section_map, g, t),
                            twin_locations).id,
             t7      |-> simplify_edreams_itinerary_t7(
                            [raw_edo.itinerary EXCEPT !.sortPrice = p],
                            raw_edo.segment_map,
                            sections_twin(raw_edo.section_map, g, t),
                            twin_locations).id,
             pruebas |-> simplify_edreams_itinerary_pruebas(
                            [raw_keys EXCEPT !.sortPrice = p],
                            segments_map_twin(raw_keys, g, t)).id]]
  /\ records' = [kiwi    |-> simplify_kiwi_itinerary(raw_kiwi),
                 edo     |-> simplify_edreams_itinerary(raw_edo.itinerary,
                                raw_edo.segment_map, raw_edo.section_map, <<>>),
                 t7      |-> simplify_edreams_itinerary_t7(raw_edo.itinerary,
                                raw_edo.segment_map, raw_edo.section_map, <<>>),
                 pruebas |-> simplify_edreams_itinerary_pruebas(raw_keys, <<>>)]
  /\ ids' = [kiwi    |-> records'.kiwi.id,
             edo     |-> records'.edo.id,
             t7      |-> records'.t7.id,
             pruebas |-> records'.pruebas.id]
  /\ idpc' = "done"
  /\ UNCHANGED <<trip, raw_kiwi, raw_edo, raw_keys, hub_count>>
  /\ UNCHANGED <<mainvars, plotvars, poolvars>>

\* compute_hub_count applied to the record mapper-kiwi.py wrote
ComputeHubCount ==
  /\ idpc = "done"
  /\ hub_count' = compute_hub_count(simplify_kiwi_itinerary(raw_kiwi))
  /\ idpc' = "counted"
  /\ UNCHANGED <<trip, raw_kiwi, raw_edo, raw_keys, ids, records, twin>>
  /\ UNCHANGED <<mainvars, plotvars, poolvars>>

IdNext ==
  \/ \E c \in Carriers, n \in FlightNumbers, joined \in KeyStyles(raw_keys) :
       AddOutbound(c, n, joined)
  \/ \E c \in Carriers, n \in FlightNumbers, joined \in KeyStyles(raw_keys) :
       AddInbound(c, n, joined)
  \/ RunMappers
  \/ ComputeHubCount



\* =================================================== the analysis pipeline
\* ------------------------------------------------------------- the inputs
MAD == "MAD"
AMS == "AMS"
JFK == "JFK"
STN == "STN"
EWR == "EWR"

\* a carrier code of three characters
EZY == <<"E", "Z", "Y">>

KiwiFlight(c, n, src, dst, t) ==
  [carrier |-> c, code |-> n, source |-> src, destination |-> dst,
   sourceTime |-> t, destinationTime |-> t]

ViaAMS(t) == <<KiwiFlight(KL, <<"1", "2">>, MAD, AMS, t),
               KiwiFlight(KL, <<"3", "4">>, AMS, JFK, t)>>
ViaSTN(t) == <<KiwiFlight(FR, <<"5", "6">>, MAD, STN, t),
               KiwiFlight(EZY, <<"7", "8">>, STN, EWR, t)>>

Direct(t) == <<KiwiFlight(KL, <<"9", "9">>, MAD, EWR, t)>>

\* what Kiwi may list: the KL connection at 150, at 90 and, at another time
\* of day, at 150 again; the connection via STN, flown by FR and then by
\* EZY, at 125; the direct KL flight at 155; the KL connection with no
\* priceEur; and, at 150, the two KL flights as a return trip, KL12 out and
\* KL34 back
KiwiOffers ==
  { [outbound |-> ViaAMS("08:00"), inbound |-> <<>>, price |-> <<"1", "5", "0">>],
    [outbound |-> ViaAMS("08:00"), inbound |-> <<>>, price |-> <<"9", "0">>],
    [outbound |-> ViaAMS("17:00"), inbound |-> <<>>, price |-> <<"1", "5", "0">>],
    [outbound |-> ViaSTN("08:00"), inbound |-> <<>>, price |-> <<"1", "2", "5">>],
    [outbound |-> Direct("08:00"), inbound |-> <<>>, price |-> <<"1", "5", "5">>],
    [outbound |-> ViaAMS("08:00"), inbound |-> <<>>],
    [outbound |-> SubSeq(ViaAMS("08:00"), 1, 1),
     inbound  |-> SubSeq(ViaAMS("08:00"), 2, 2), price |-> <<"1", "5", "0">>] }

\* the legend of the eDreams response: segment 1 is the KL connection via
\* AMS, segment 2 the direct KL flight; segment 2 also lists section 9, which
\* the legend does not describe
segment_map ==
  (1 :> [sections |-> <<1, 2>>, carrier |-> 0])
  @@ (2 :> [sections |-> <<3, 9>>, carrier |-> 0])
section_map ==
  (1 :> [from |-> 11, to |-> 12, departureDate |-> "08:00", arrivalDate |-> "08:00",
         flightCode |-> <<"K", "L", "1", "2">>])
  @@ (2 :> [from |-> 12, to |-> 13, departureDate |-> "08:00", arrivalDate |-> "08:00",
            flightCode |-> <<"K", "L", "3", "4">>])
  @@ (3 :> [from |-> 11, to |-> 14, departureDate |-> "08:00", arrivalDate |-> "08:00",
            flightCode |-> <<"K", "L", "9", "9">>])
location_map == (11 :> MAD) @@ (12 :> AMS) @@ (13 :> JFK) @@ (14 :> EWR)

\* what eDreams may list: the KL connection at 110 with a membership fee of
\* 10 and at 150 with the same fee, and, at 130 with no membershipPerks, the
\* KL connection combined with the direct KL flight; the last one also
\* names segment 7, which the legend does not describe
EdreamsOffers ==
  { [firstSegments |-> <<1>>, secondSegments |-> <<>>, sortPrice |-> 110, fee |-> 10],
    [firstSegments |-> <<1>>, secondSegments |-> <<>>, sortPrice |-> 150, fee |-> 10],
    [firstSegments |-> <<1>>, secondSegments |-> <<2, 7>>, sortPrice |-> 130] }

\* --------------------------------------------------- values and helpers
\* float(entry["price"]) of a Kiwi record, whose price is a decimal string
float(price) == ParseDigits(price, 0)

\* float(price) raises TypeError: the price is None
float_raises(price) == price = None

\* some record of the list has a price float() raises on
unparsable(data) == \E i \in DOMAIN data : float_raises(data[i].price)

\* min(...) of a non-empty collection of numbers
Min(S) == CHOOSE m \in S : \A x \in S : m <= x

\* sum(1 for x in s if p(x))
Count(keep) == Cardinality(keep)

\* the value of n / d as the pair <<n, d>>; Zero is the literal 0
Zero == <<0, 1>>
Div(n, d) == <<n, d>>
Raises(r) == r[2] = 0

\* n / d if d else 0
DivOrZero_unguarded(n, d) == Div(n, d)
DivOrZero(n, d) == IF d # 0 THEN Div(n, d) ELSE Zero

\* a division by zero among the ratios of a stage
Divides(stage, ratios) == \E r \in ratios : Raises(stage[r])

Unset == <<>>

Steps == <<"fetch", "map_kiwi", "map_edreams", "analysis2", "dedup", "reconcile",
           "cheapest", "compare", "overall", "hubs", "flights", "cheap",
           "carriers", "distribution", "done">>
StepNo(s) == CHOOSE i \in DOMAIN Steps : Steps[i] = s
\* step s of this run has completed
Past(s) == StepNo(IF pc = "error" THEN failed_at ELSE pc) > StepNo(s)

Raise(exception) ==
  /\ error' = exception
  /\ failed_at' = pc
  /\ pc' = "error"

\* ------------------------------------------------------------- the steps
\* the fetch layer stores one more itinerary of a response
FetchKiwi(itinerary) ==
  /\ pc = "fetch"
  /\ Len(kiwi_response) < MaxKiwi
  /\ kiwi_response' = Append(kiwi_response, itinerary)
  /\ UNCHANGED <<edreams_response, kiwi_data, edreams_data, edreams_mapper, pc, error,
                 failed_at,
                 a2, setvars, stagevars>>
  /\ UNCHANGED <<idvars, plotvars, poolvars>>

FetchEdreams(itinerary) ==
  /\ pc = "fetch"
  /\ Len(edreams_response) < MaxEdo
  /\ edreams_response' = Append(edreams_response, itinerary)
  /\ UNCHANGED <<kiwi_response, kiwi_data, edreams_data, edreams_mapper, pc, error,
                 failed_at,
                 a2, setvars, stagevars>>
  /\ UNCHANGED <<idvars, plotvars, poolvars>>

FetchDone ==
  /\ pc = "fetch"
  /\ pc' = "map_kiwi"
  /\ UNCHANGED <<inputvars, error, failed_at, a2, setvars, stagevars>>
  /\ UNCHANGED <<idvars, plotvars, poolvars>>

\* mapper-kiwi.py
MapKiwi ==
  /\ pc = "map_kiwi"
  /\ kiwi_data' = simplify_kiwi_json(kiwi_response)
  /\ pc' = "map_edreams"
  /\ UNCHANGED <<kiwi_response, edreams_response, edreams_data, edreams_mapper,
                 error, failed_at,
                 a2, setvars, stagevars>>
  /\ UNCHANGED <<idvars, plotvars, poolvars>>

\* the mapper part of analysis-combined.py
MapEdreams ==
  /\ pc = "map_edreams"
  /\ edreams_data' = simplify_edreams_json(edreams_response, segment_map,
                                           section_map, location_map)
  /\ edreams_mapper' = "analysis-combined.py"
  /\ pc' = "analysis2"
  /\ UNCHANGED <<kiwi_response, edreams_response, kiwi_data, error, failed_at,
                 a2, setvars, stagevars>>
  /\ UNCHANGED <<idvars, plotvars, poolvars>>

\* test7/mapper-edo.py, the stand-alone eDreams mapper
MapEdreamsTest7 ==
  /\ pc = "map_edreams"
  /\ edreams_data' = simplify_edreams_json_t7(edreams_response, segment_map,
                                              section_map, location_map)
  /\ edreams_mapper' = "test7/mapper-edo.py"
  /\ pc' = "analysis2"
  /\ UNCHANGED <<kiwi_response, edreams_response, kiwi_data, error, failed_at,
                 a2, setvars, stagevars>>
  /\ UNCHANGED <<idvars, plotvars, poolvars>>

\* ------------------------------------------- analyze_journey, lines 191-249
ids_of(data) == {data[i].id : i \in DOMAIN data}

dict_index(d, it_id) ==
  IF \E k \in DOMAIN d : d[k].id = it_id
  THEN CHOOSE k \in DOMAIN d : d[k].id = it_id ELSE 0

\* it_price < float(unique_kiwi_dict[it_id]["price"])
cheaper_le(it_price, kept_price) == it_price <= kept_price
cheaper(it_price, kept_price) == it_price < kept_price

\* one turn of the loop of lines 193-198; the dict keeps its keys in the
\* order of their first insertion
dedup_step(unique_kiwi_dict, it) ==
  LET k == dict_index(unique_kiwi_dict, it.id)
  IN  IF k = 0 THEN Append(unique_kiwi_dict, it)
      ELSE IF cheaper(float(it.price), float(unique_kiwi_dict[k].price))
           THEN [unique_kiwi_dict EXCEPT ![k] = it]
           ELSE unique_kiwi_dict

RECURSIVE dedup_fold(_, _)
dedup_fold(data, unique_kiwi_dict) ==
  IF data = <<>> THEN unique_kiwi_dict
  ELSE dedup_fold(Tail(data), dedup_step(unique_kiwi_dict, Head(data)))

deduplicate_skip_first(data) ==
  dedup_fold(IF data = <<>> THEN data ELSE Tail(data), <<>>)
deduplicate(data) == dedup_fold(data, <<>>)

\* line 195 converts the price of every record it meets
Dedup ==
  /\ pc = "dedup"
  /\ IF unparsable(kiwi_data)
     THEN /\ Raise("TypeError")
          /\ UNCHANGED <<unique_kiwi, total_unique_kiwi>>
     ELSE /\ unique_kiwi' = deduplicate(kiwi_data)
          /\ total_unique_kiwi' = Len(deduplicate(kiwi_data))
          /\ pc' = "reconcile"
          /\ UNCHANGED <<error, failed_at>>
  /\ UNCHANGED <<inputvars, a2, kiwi_itinerary_ids,
                 edreams_itinerary_ids, repeated_itineraries, missing_in_edreams,
                 stagevars>>
  /\ UNCHANGED <<idvars, plotvars, poolvars>>

intersection(a, b) == a \cap b
difference_swapped(a, b) == b \ a
difference(a, b) == a \ b

Reconcile ==
  /\ pc = "reconcile"
  /\ kiwi_itinerary_ids' = ids_of(unique_kiwi)
  /\ edreams_itinerary_ids' = ids_of(edreams_data)
  /\ repeated_itineraries' = intersection(ids_of(unique_kiwi), ids_of(edreams_data))
  /\ missing_in_edreams' = difference(ids_of(unique_kiwi), ids_of(edreams_data))
  /\ pc' = "cheapest"
  /\ UNCHANGED <<inputvars, error, failed_at, a2, unique_kiwi, total_unique_kiwi,
                 stagevars>>
  /\ UNCHANGED <<idvars, plotvars, poolvars>>

\* lines 209-218; min() of an empty sequence raises ValueError
cheapest_of(kd, ed, n_unique_kiwi, edreams_ids) ==
  LET cheapest_edreams_price == Min({ed[i].price : i \in DOMAIN ed})
      cheapest_kiwi_price    == Min({float(kd[i].price) : i \in DOMAIN kd})
      IsCheaper(i)           == float(kd[i].price) < cheapest_edreams_price
      cheaper_entries        == Filter(kd, {i \in DOMAIN kd : IsCheaper(i)}, 1)
      cheaper_ids            == [i \in DOMAIN cheaper_entries |-> cheaper_entries[i].id]
  IN  [cheapest_edreams_price |-> cheapest_edreams_price,
       cheapest_kiwi_price    |-> cheapest_kiwi_price,
       cheaper_than_edo_cheapest_itineraries |-> cheaper_ids,
       cheaper_than_edo_cheapest_count       |-> Len(cheaper_ids),
       percent_over_kiwi    |-> DivOrZero(100 * Len(cheaper_ids), n_unique_kiwi),
       percent_over_edreams |-> DivOrZero(100 * Len(cheaper_ids),
                                          Cardinality(edreams_ids))]

Cheapest ==
  /\ pc = "cheapest"
  /\ IF edreams_data = <<>> \/ kiwi_data = <<>>
     THEN Raise("ValueError") /\ UNCHANGED cheapest
     ELSE LET c == cheapest_of(kiwi_data, edreams_data, total_unique_kiwi,
                               edreams_itinerary_ids)
          IN  IF Divides(c, {"percent_over_kiwi", "percent_over_edreams"})
              THEN Raise("ZeroDivisionError") /\ UNCHANGED cheapest
              ELSE /\ cheapest' = c
                   /\ pc' = "compare"
                   /\ UNCHANGED <<error, failed_at>>
  /\ UNCHANGED <<inputvars, a2, setvars, compare, overall, latevars>>
  /\ UNCHANGED <<idvars, plotvars, poolvars>>

\* next(entry["price"] for entry in data if entry["id"] == itinerary_id)
first_with_id(data, itinerary_id) ==
  data[CHOOSE i \in DOMAIN data :
         /\ data[i].id = itinerary_id
         /\ \A j \in 1..(i - 1) : data[j].id # itinerary_id]

\* price_diff = edreams_price - kiwi_price
price_diff_reversed(edreams_price, kiwi_price) == kiwi_price - edreams_price
price_diff_of(edreams_price, kiwi_price) == edreams_price - kiwi_price

\* the price of the eDreams side of a repeated itinerary (line 226)
edreams_price_of(ed, itinerary_id) == first_with_id(ed, itinerary_id).price
\* the price of the Kiwi side (line 227)
kiwi_price_of(uk, itinerary_id) == float(first_with_id(uk, itinerary_id).price)

\* the loop of lines 225-235 over the set repeated_itineraries; its sums and
\* counts do not depend on the order in which the set is iterated
RECURSIVE compare_loop(_, _, _, _)
compare_loop(todo, ed, uk, acc) ==
  IF todo = {} THEN acc
  ELSE LET itinerary_id  == CHOOSE x \in todo : TRUE
           edreams_price == edreams_price_of(ed, itinerary_id)
           kiwi_price    == kiwi_price_of(uk, itinerary_id)
           price_diff    == price_diff_of(edreams_price, kiwi_price)
           acc1 == [acc EXCEPT !.price_diff_sum = @ + price_diff]
           acc2 == IF edreams_price < kiwi_price
                   THEN [acc1 EXCEPT !.eDreams_cheaper_count = @ + 1,
                                     !.eDreams_cheaper_diffs =
                                        Append(@, kiwi_price - edreams_price)]
                   ELSE IF kiwi_price < edreams_price
                   THEN [acc1 EXCEPT !.kiwi_cheaper_count = @ + 1,
                                     !.kiwi_cheaper_diffs =
                                        Append(@, edreams_price - kiwi_price)]
                   ELSE acc1
       IN  compare_loop(todo \ {itinerary_id}, ed, uk, acc2)

RECURSIVE sum(_)
sum(s) == IF s = <<>> THEN 0 ELSE Head(s) + sum(Tail(s))

\* the comparison with every identity that eDreams does not win counted
\* for Kiwi, equal prices included
compare_of_ties_to_kiwi(repeated, ed, uk) ==
  LET acc == compare_loop(repeated, ed, uk,
               [eDreams_cheaper_count |-> 0, kiwi_cheaper_count |-> 0,
                price_diff_sum |-> 0, eDreams_cheaper_diffs |-> <<>>,
                kiwi_cheaper_diffs |-> <<>>])
      total_repeated     == Cardinality(repeated)
      kiwi_cheaper_count == total_repeated - acc.eDreams_cheaper_count
  IN  [eDreams_cheaper_count |-> acc.eDreams_cheaper_count,
       kiwi_cheaper_count    |-> kiwi_cheaper_count,
       price_diff_sum        |-> acc.price_diff_sum,
       total_repeated        |-> total_repeated,
       percent_eDreams_cheaper_repeated |->
          DivOrZero(100 * acc.eDreams_cheaper_count, total_repeated),
       percent_kiwi_cheaper_repeated |->
          DivOrZero(100 * kiwi_cheaper_count, total_repeated),
       overall_avg_price_diff |-> DivOrZero(acc.price_diff_sum, total_repeated),
       avg_diff_eDreams_cheaper |->
          DivOrZero(sum(acc.eDreams_cheaper_diffs), Len(acc.eDreams_cheaper_diffs)),
       avg_diff_kiwi_cheaper |->
          DivOrZero(sum(acc.kiwi_cheaper_diffs), Len(acc.kiwi_cheaper_diffs))]

compare_of(repeated, ed, uk) ==
  LET acc == compare_loop(repeated, ed, uk,
               [eDreams_cheaper_count |-> 0, kiwi_cheaper_count |-> 0,
                price_diff_sum |-> 0, eDreams_cheaper_diffs |-> <<>>,
                kiwi_cheaper_diffs |-> <<>>])
      total_repeated == Cardinality(repeated)
  IN  [eDreams_cheaper_count |-> acc.eDreams_cheaper_count,
       kiwi_cheaper_count    |-> acc.kiwi_cheaper_count,
       price_diff_sum        |-> acc.price_diff_sum,
       total_repeated        |-> total_repeated,
       percent_eDreams_cheaper_repeated |->
          DivOrZero(100 * acc.eDreams_cheaper_count, total_repeated),
       percent_kiwi_cheaper_repeated |->
          DivOrZero(100 * acc.kiwi_cheaper_count, total_repeated),
       overall_avg_price_diff |-> DivOrZero(acc.price_diff_sum, total_repeated),
       avg_diff_eDreams_cheaper |->
          DivOrZero(sum(acc.eDreams_cheaper_diffs), Len(acc.eDreams_cheaper_diffs)),
       avg_diff_kiwi_cheaper |->
          DivOrZero(sum(acc.kiwi_cheaper_diffs), Len(acc.kiwi_cheaper_diffs))]

CompareRatios ==
  {"percent_eDreams_cheaper_repeated", "percent_kiwi_cheaper_repeated",
   "overall_avg_price_diff", "avg_diff_eDreams_cheaper", "avg_diff_kiwi_cheaper"}

Compare ==
  /\ pc = "compare"
  /\ LET c == compare_of(repeated_itineraries, edreams_data, unique_kiwi)
     IN  IF Divides(c, CompareRatios)
         THEN Raise("ZeroDivisionError") /\ UNCHANGED compare
         ELSE /\ compare' = c
              /\ pc' = "overall"
              /\ UNCHANGED <<error, failed_at>>
  /\ UNCHANGED <<inputvars, a2, setvars, cheapest, overall, latevars>>
  /\ UNCHANGED <<idvars, plotvars, poolvars>>

\* lines 243-249; the last division has no guard
overall_of(uk, kiwi_ids, edreams_ids, repeated, n_unique_kiwi, cheapest_edreams_price, kiwi_cheaper_count) ==
  LET not_repeated_kiwi == kiwi_ids \ repeated
      Counted(i) == /\ uk[i].id \in not_repeated_kiwi
                    /\ float(uk[i].price) < cheapest_edreams_price
      count_cheaper_non_repeated_kiwi == Count({i \in DOMAIN uk : Counted(i)})
      kiwi_cheaper_total == count_cheaper_non_repeated_kiwi + kiwi_cheaper_count
      total_unique_itineraries ==
        n_unique_kiwi + Cardinality(edreams_ids) - Cardinality(repeated)
  IN  [not_repeated_kiwi |-> not_repeated_kiwi,
       count_cheaper_non_repeated_kiwi |-> count_cheaper_non_repeated_kiwi,
       kiwi_cheaper_total |-> kiwi_cheaper_total,
       total_unique_itineraries |-> total_unique_itineraries,
       percent_kiwi_cheaper_overall |->
          Div(100 * kiwi_cheaper_total, total_unique_itineraries)]

Overall ==
  /\ pc = "overall"
  /\ LET o == overall_of(unique_kiwi, kiwi_itinerary_ids, edreams_itinerary_ids,
                         repeated_itineraries, total_unique_kiwi,
                         cheapest.cheapest_edreams_price, compare.kiwi_cheaper_count)
     IN  IF Raises(o.percent_kiwi_cheaper_overall)
         THEN Raise("ZeroDivisionError") /\ UNCHANGED overall
         ELSE /\ overall' = o
              /\ pc' = "hubs"
              /\ UNCHANGED <<error, failed_at>>
  /\ UNCHANGED <<inputvars, a2, setvars, cheapest, compare, latevars>>
  /\ UNCHANGED <<idvars, plotvars, poolvars>>

\* ------------------------------------------- analyze_journey, lines 251-344
\* itin.get("outbound", []) + itin.get("inbound", [])
all_segs(itin) == itin.outbound \o itin.inbound

\* lines 252-263 and 264-275: the stations named by the segments of a list
locations_of(data) ==
  LET stations(itin) ==
        UNION {{all_segs(itin)[k].sourceStationId,
                all_segs(itin)[k].destinationStationId} :
                 k \in DOMAIN all_segs(itin)}
  IN  {station \in UNION {stations(data[i]) : i \in DOMAIN data} : station # ""}

\* lines 288-297
uses_hub(itin, hub) ==
  \E k \in DOMAIN all_segs(itin) :
    \/ all_segs(itin)[k].sourceStationId = hub
    \/ all_segs(itin)[k].destinationStationId = hub

\* lines 327 and 338
touches(itin, missing_locations) ==
  \E k \in DOMAIN all_segs(itin) :
    \/ all_segs(itin)[k].sourceStationId \in missing_locations
    \/ all_segs(itin)[k].destinationStationId \in missing_locations

\* lines 285-308 without the test of line 300: every use counts as a
\* cheaper use
hub_entry_unpriced(hub, uk, cheaper_ids) ==
  LET Uses(i) == uses_hub(uk[i], hub)
  IN  [Hub |-> hub, Usage |-> Count({i \in DOMAIN uk : Uses(i)}),
       Cheaper_Usage |-> Count({i \in DOMAIN uk : Uses(i)})]

\* lines 285-308, one hub
hub_entry(hub, uk, cheaper_ids) ==
  LET Uses(i)        == uses_hub(uk[i], hub)
      UsesCheaper(i) == uses_hub(uk[i], hub) /\ uk[i].id \in Range(cheaper_ids)
  IN  [Hub |-> hub, Usage |-> Count({i \in DOMAIN uk : Uses(i)}),
       Cheaper_Usage |-> Count({i \in DOMAIN uk : UsesCheaper(i)})]

\* the orders in which a set may be iterated
Orders(S) == {order \in [1..Cardinality(S) -> S] : Range(order) = S}

hubs_of(uk, ed, n_unique_kiwi, edreams_ids, repeated, missing, cheaper_ids) ==
  LET kiwi_locations    == locations_of(uk)
      edo_locations     == locations_of(ed)
      missing_locations == kiwi_locations \ edo_locations
      missing_hub_cheaper_usage ==
        [hub \in missing_locations |-> hub_entry(hub, uk, cheaper_ids).Cheaper_Usage]
      missing_content   == Cardinality(missing)
      total_repeated    == Cardinality(repeated)
      itins_with_missing_hub ==
        {uk[i].id : i \in {j \in DOMAIN uk : touches(uk[j], missing_locations)}}
      itins_with_missing_hub_cheaper ==
        {uk[i].id : i \in {j \in DOMAIN uk : /\ touches(uk[j], missing_locations)
                                             /\ uk[j].id \in Range(cheaper_ids)}}
      cheaper_than_edo_cheapest_count == Len(cheaper_ids)
  IN  [kiwi_locations          |-> kiwi_locations,
       edo_locations           |-> edo_locations,
       missing_locations       |-> missing_locations,
       missing_locations_count |-> Cardinality(missing_locations),
       missing_cheaper_hubs_count |->
          Cardinality({hub \in missing_locations : missing_hub_cheaper_usage[hub] > 0}),
       missing_content         |-> missing_content,
       missing_content_pct     |-> DivOrZero(100 * missing_content, n_unique_kiwi),
       repeated_percent_kiwi   |-> DivOrZero(100 * total_repeated, n_unique_kiwi),
       repeated_percent_edreams |->
          DivOrZero(100 * total_repeated, Cardinality(edreams_ids)),
       missing_hub_itinerary_count |-> Cardinality(itins_with_missing_hub),
       missing_hub_itinerary_pct |->
          DivOrZero(100 * Cardinality(itins_with_missing_hub), n_unique_kiwi),
       missing_hub_cheaper_itinerary_count |->
          Cardinality(itins_with_missing_hub_cheaper),
       missing_hub_cheaper_itinerary_pct |->
          DivOrZero(100 * Cardinality(itins_with_missing_hub_cheaper),
                    cheaper_than_edo_cheapest_count)]

\* the list hub_breakdown follows the iteration order of the set
\* missing_locations, which the language leaves open
Hubs ==
  /\ pc = "hubs"
  /\ LET h == hubs_of(unique_kiwi, edreams_data, total_unique_kiwi,
                      edreams_itinerary_ids, repeated_itineraries,
                      missing_in_edreams,
                      cheapest.cheaper_than_edo_cheapest_itineraries)
     IN  IF Divides(h, {"missing_content_pct", "repeated_percent_kiwi",
                        "repeated_percent_edreams", "missing_hub_itinerary_pct",
                        "missing_hub_cheaper_itinerary_pct"})
         THEN Raise("ZeroDivisionError") /\ UNCHANGED <<hubs, hub_breakdown>>
         ELSE /\ hubs' = h
              /\ \E order \in Orders(h.missing_locations) :
                   hub_breakdown' =
                     [k \in DOMAIN order |->
                        hub_entry(order[k], unique_kiwi,
                                  cheapest.cheaper_than_edo_cheapest_itineraries)]
              /\ pc' = "flights"
              /\ UNCHANGED <<error, failed_at>>
  /\ UNCHANGED <<inputvars, a2, setvars, cheapest, compare, overall, flights,
                 cheap, carriers, distribution>>
  /\ UNCHANGED <<idvars, plotvars, poolvars>>

\* ------------------------------------------- analyze_journey, lines 346-391
\* f"{seg['carrierCode']}{seg['flightCode']}" of the segments that have both
flights_of(itin) ==
  {all_segs(itin)[k].carrierCode \o all_segs(itin)[k].flightCode :
     k \in {j \in DOMAIN all_segs(itin) :
              /\ all_segs(itin)[j].carrierCode # <<>>
              /\ all_segs(itin)[j].flightCode # <<>>}}

\* kiwi_flights and kiwi_flights.issubset(edreams_flights)
constructible(itin, edreams_flights) ==
  flights_of(itin) # {} /\ flights_of(itin) \subseteq edreams_flights

flights_stage(uk, ed, missing, cheapest_edreams_price) ==
  LET kiwi_missing_flights ==
        UNION {flights_of(uk[i]) : i \in {j \in DOMAIN uk : uk[j].id \in missing}}
      edreams_flights == UNION {flights_of(ed[i]) : i \in DOMAIN ed}
      Built(i)  == uk[i].id \in missing /\ constructible(uk[i], edreams_flights)
      IsCheap(i) == float(uk[i].price) < cheapest_edreams_price
      cheap_kiwi_itins == Filter(uk, {i \in DOMAIN uk : IsCheap(i)}, 1)
      BuiltCheap(i) == constructible(cheap_kiwi_itins[i], edreams_flights)
  IN  [kiwi_missing_flights |-> kiwi_missing_flights,
       edreams_flights      |-> edreams_flights,
       missing_flights      |-> kiwi_missing_flights \ edreams_flights,
       constructible_count  |-> Count({i \in DOMAIN uk : Built(i)}),
       constructible_pct    |->
          DivOrZero(100 * Count({i \in DOMAIN uk : Built(i)}), Cardinality(missing)),
       cheap_kiwi_itins     |-> cheap_kiwi_itins,
       constructible_cheap_count |-> Count({i \in DOMAIN cheap_kiwi_itins : BuiltCheap(i)}),
       constructible_cheap_pct |->
          DivOrZero(100 * Count({i \in DOMAIN cheap_kiwi_itins : BuiltCheap(i)}),
                    Len(cheap_kiwi_itins))]

Flights ==
  /\ pc = "flights"
  /\ LET f == flights_stage(unique_kiwi, edreams_data, missing_in_edreams,
                            cheapest.cheapest_edreams_price)
     IN  IF Divides(f, {"constructible_pct", "constructible_cheap_pct"})
         THEN Raise("ZeroDivisionError") /\ UNCHANGED flights
         ELSE /\ flights' = f
              /\ pc' = "cheap"
              /\ UNCHANGED <<error, failed_at>>
  /\ UNCHANGED <<inputvars, a2, setvars, cheapest, compare, overall, hubs,
                 hub_breakdown, cheap, carriers, distribution>>
  /\ UNCHANGED <<idvars, plotvars, poolvars>>

\* ------------------------------------------- analyze_journey, lines 393-429
\* any(seg.get("carrierCode") == "FR" for seg in ...)
has_FR(itin) == \E k \in DOMAIN all_segs(itin) : all_segs(itin)[k].carrierCode = FR

cheap_stage(cheap_kiwi_itins, missing, missing_locations) ==
  LET WithFR(i)     == has_FR(cheap_kiwi_itins[i])
      IsMissing(i)  == cheap_kiwi_itins[i].id \in missing
      cheap_missing == Filter(cheap_kiwi_itins, {i \in DOMAIN cheap_kiwi_itins : IsMissing(i)}, 1)
      DueToHub(i)   == touches(cheap_missing[i], missing_locations)
      cheap_missing_hub == Filter(cheap_missing, {i \in DOMAIN cheap_missing : DueToHub(i)}, 1)
      NotDueToHub(i) == cheap_missing[i] \notin Range(cheap_missing_hub)
      cheap_missing_nonhub == Filter(cheap_missing, {i \in DOMAIN cheap_missing : NotDueToHub(i)}, 1)
      NonHubWithFR(i) == has_FR(cheap_missing_nonhub[i])
  IN  [cheap_kiwi_total         |-> Len(cheap_kiwi_itins),
       cheap_kiwi_with_FR_count |-> Count({i \in DOMAIN cheap_kiwi_itins : WithFR(i)}),
       cheap_kiwi_with_FR_pct   |->
          DivOrZero(100 * Count({i \in DOMAIN cheap_kiwi_itins : WithFR(i)}), Len(cheap_kiwi_itins)),
       cheap_missing_count      |-> Len(cheap_missing),
       cheap_missing_hub_count  |-> Len(cheap_missing_hub),
       cheap_missing_nonhub_count |-> Len(cheap_missing) - Len(cheap_missing_hub),
       cheap_missing_nonhub_with_FR_count |-> Count({i \in DOMAIN cheap_missing_nonhub : NonHubWithFR(i)}),
       cheap_missing_nonhub_with_FR_pct |->
          DivOrZero(100 * Count({i \in DOMAIN cheap_missing_nonhub : NonHubWithFR(i)}),
                    Len(cheap_missing_nonhub))]

Cheap ==
  /\ pc = "cheap"
  /\ LET c == cheap_stage(flights.cheap_kiwi_itins, missing_in_edreams,
                          hubs.missing_locations)
     IN  IF Divides(c, {"cheap_kiwi_with_FR_pct", "cheap_missing_nonhub_with_FR_pct"})
         THEN Raise("ZeroDivisionError") /\ UNCHANGED cheap
         ELSE /\ cheap' = c
              /\ pc' = "carriers"
              /\ UNCHANGED <<error, failed_at>>
  /\ UNCHANGED <<inputvars, a2, setvars, cheapest, compare, overall, hubs,
                 hub_breakdown, flights, carriers, distribution>>
  /\ UNCHANGED <<idvars, plotvars, poolvars>>

\* ------------------------------------------- analyze_journey, lines 431-449
carriers_stage(ed, missing_flights, kiwi_locations, edo_locations, missing_locations_count) ==
  LET missing_flights_carriers == {Take2(f) : f \in missing_flights}
      edreams_carriers ==
        {carrier \in UNION {{all_segs(ed[i])[k].carrierCode :
                               k \in DOMAIN all_segs(ed[i])} : i \in DOMAIN ed} :
           carrier # <<>>}
      missing_carriers    == missing_flights_carriers \ edreams_carriers
      total_unique_cities == Cardinality(kiwi_locations \cup edo_locations)
  IN  [missing_flights_carriers |-> missing_flights_carriers,
       edreams_carriers       |-> edreams_carriers,
       missing_carriers       |-> missing_carriers,
       missing_carriers_count |-> Cardinality(missing_carriers),
       total_unique_cities    |-> total_unique_cities,
       missing_hub_cities_pct |->
          IF total_unique_cities > 2
          THEN Div(100 * missing_locations_count, total_unique_cities - 2)
          ELSE Zero]

MissingCarriers ==
  /\ pc = "carriers"
  /\ LET c == carriers_stage(edreams_data, flights.missing_flights,
                             hubs.kiwi_locations, hubs.edo_locations,
                             hubs.missing_locations_count)
     IN  IF Divides(c, {"missing_hub_cities_pct"})
         THEN Raise("ZeroDivisionError") /\ UNCHANGED carriers
         ELSE /\ carriers' = c
              /\ pc' = "distribution"
              /\ UNCHANGED <<error, failed_at>>
  /\ UNCHANGED <<inputvars, a2, setvars, cheapest, compare, overall, hubs,
                 hub_breakdown, flights, cheap, distribution>>
  /\ UNCHANGED <<idvars, plotvars, poolvars>>

\* ----------------------------- lines 149-176 and analyze_journey, 451-460
\* the dict of hub count to frequency, as a function
hub_distribution(itineraries) ==
  [count \in {compute_hub_count(itineraries[i]) : i \in DOMAIN itineraries} |->
     Cardinality({i \in DOMAIN itineraries :
                    compute_hub_count(itineraries[i]) = count})]

\* sorted(...) of a set of ints
RECURSIVE sorted(_)
sorted(S) == IF S = {} THEN <<>> ELSE <<Min(S)>> \o sorted(S \ {Min(S)})

\* the items in decreasing order of hub count
format_distribution_descending(dist, total) ==
  [i \in DOMAIN sorted(DOMAIN dist) |->
     [k   |-> sorted(DOMAIN dist)[Len(sorted(DOMAIN dist)) + 1 - i],
      v   |-> dist[sorted(DOMAIN dist)[Len(sorted(DOMAIN dist)) + 1 - i]],
      pct |-> Div(100 * dist[sorted(DOMAIN dist)[Len(sorted(DOMAIN dist)) + 1 - i]],
                  total)]]

\* one item per hub count, in increasing order: the count, its frequency and
\* the percentage 100*v/total printed with it
format_distribution(dist, total) ==
  [i \in DOMAIN sorted(DOMAIN dist) |->
     [k   |-> sorted(DOMAIN dist)[i],
      v   |-> dist[sorted(DOMAIN dist)[i]],
      pct |-> Div(100 * dist[sorted(DOMAIN dist)[i]], total)]]

\* list({it["id"]: it for it in data}.values()): a key keeps the place of its
\* first insertion and the value of its last
last_step(d, it) ==
  LET k == dict_index(d, it.id)
  IN  IF k = 0 THEN Append(d, it) ELSE [d EXCEPT ![k] = it]

RECURSIVE last_fold(_, _)
last_fold(data, d) ==
  IF data = <<>> THEN d ELSE last_fold(Tail(data), last_step(d, Head(data)))

last_by_id(data) == last_fold(data, <<>>)

distribution_stage(kd, cheapest_edreams_price) ==
  LET uk             == last_by_id(kd)
      IsCheap(i)     == float(kd[i].price) < cheapest_edreams_price
      unique_cheap   == last_by_id(Filter(kd, {i \in DOMAIN kd : IsCheap(i)}, 1))
  IN  [unique_kiwi        |-> uk,
       total_unique_kiwi  |-> Len(uk),
       all_hub_dist       |-> hub_distribution(uk),
       hubs_distribution_all |-> format_distribution(hub_distribution(uk), Len(uk)),
       unique_cheap       |-> unique_cheap,
       total_unique_cheap |-> Len(unique_cheap),
       cheap_hub_dist     |-> hub_distribution(unique_cheap),
       hubs_distribution_cheap |->
          format_distribution(hub_distribution(unique_cheap), Len(unique_cheap))]

\* the names unique_kiwi and total_unique_kiwi are assigned again here
Distribution ==
  /\ pc = "distribution"
  /\ LET d == distribution_stage(kiwi_data, cheapest.cheapest_edreams_price)
     IN  IF \E item \in Range(d.hubs_distribution_all)
                          \cup Range(d.hubs_distribution_cheap) : Raises(item.pct)
         THEN /\ Raise("ZeroDivisionError")
              /\ UNCHANGED <<distribution, unique_kiwi, total_unique_kiwi>>
         ELSE /\ distribution' = d
              /\ unique_kiwi' = d.unique_kiwi
              /\ total_unique_kiwi' = d.total_unique_kiwi
              /\ pc' = "done"
              /\ UNCHANGED <<error, failed_at>>
  /\ UNCHANGED <<inputvars, a2, kiwi_itinerary_ids, edreams_itinerary_ids,
                 repeated_itineraries, missing_in_edreams, cheapest, compare,
                 overall, hubs, hub_breakdown, flights, cheap, carriers>>
  /\ UNCHANGED <<idvars, plotvars, poolvars>>

\* ---------------------------------------------------------- analysis2.py
\* The module-level script: no deduplication, the Kiwi price of a repeated
\* itinerary is that of its first record, and the overall percentage is
\* taken over len(kiwi_data) + len(edreams_data).
analysis2_of(kd, ed) ==
  LET kiwi_ids     == ids_of(kd)
      edreams_ids  == ids_of(ed)
      repeated     == intersection(kiwi_ids, edreams_ids)
      cheapest_edreams_price == Min({ed[i].price : i \in DOMAIN ed})
      cheapest_kiwi_price    == Min({float(kd[i].price) : i \in DOMAIN kd})
      IsCheaper(i) == float(kd[i].price) < cheapest_edreams_price
      cheaper_kiwi == Filter(kd, {i \in DOMAIN kd : IsCheaper(i)}, 1)
      cmp          == compare_of(repeated, ed, kd)
      not_repeated_kiwi == kiwi_ids \ repeated
      Counted(i)   == /\ kd[i].id \in not_repeated_kiwi
                      /\ float(kd[i].price) < cheapest_edreams_price
      numerator    == Count({i \in DOMAIN kd : Counted(i)}) + cmp.kiwi_cheaper_count
      total_itineraries == Len(kd) + Len(ed)
  IN  [kiwi_itinerary_ids     |-> kiwi_ids,
       edreams_itinerary_ids  |-> edreams_ids,
       repeated_itineraries   |-> repeated,
       missing_in_edreams     |-> difference(kiwi_ids, edreams_ids),
       missing_in_kiwi        |-> difference(edreams_ids, kiwi_ids),
       cheapest_edreams_price |-> cheapest_edreams_price,
       cheapest_kiwi_price    |-> cheapest_kiwi_price,
       cheaper_kiwi_itineraries |-> [i \in DOMAIN cheaper_kiwi |-> cheaper_kiwi[i].id],
       compare                |-> cmp,
       numerator              |-> numerator,
       total_itineraries      |-> total_itineraries,
       percent_kiwi_cheaper_overall |-> Div(100 * numerator, total_itineraries),
       error                  |-> IF Divides(cmp, CompareRatios) \/ total_itineraries = 0
                                  THEN "ZeroDivisionError" ELSE ""]

\* min() at lines 46-47 raises ValueError on an empty list and float()
\* TypeError on a price that is None, after the id sets
Analysis2 ==
  /\ pc = "analysis2"
  /\ a2' = IF edreams_data = <<>> \/ kiwi_data = <<>> \/ unparsable(kiwi_data)
           THEN [kiwi_itinerary_ids    |-> ids_of(kiwi_data),
                 edreams_itinerary_ids |-> ids_of(edreams_data),
                 repeated_itineraries  |->
                    intersection(ids_of(kiwi_data), ids_of(edreams_data)),
                 missing_in_edreams    |->
                    difference(ids_of(kiwi_data), ids_of(edreams_data)),
                 missing_in_kiwi       |->
                    difference(ids_of(edreams_data), ids_of(kiwi_data)),
                 error                 |->
                    IF edreams_data # <<>> /\ unparsable(kiwi_data)
                    THEN "TypeError" ELSE "ValueError"]
           ELSE analysis2_of(kiwi_data, edreams_data)
  /\ pc' = "dedup"
  /\ UNCHANGED <<inputvars, error, failed_at, setvars, stagevars>>
  /\ UNCHANGED <<idvars, plotvars, poolvars>>

\* ----------------------------------- the section and carrier plots
\* analysis-combined.py, lines 24-35, and analysis2.py, lines 7-19:
\* re.match(r's(\d+)-c(\d+)', itinerary_id); \d+ takes every digit that
\* follows, and what comes after the second number is not looked at
RECURSIVE DigitRun(_, _)
DigitRun(s, i) ==
  IF i <= Len(s) /\ s[i] \in {Digit(d) : d \in 0..9} THEN 1 + DigitRun(s, i + 1) ELSE 0

\* None where the caller expects a count: counts are never negative
NoCount == -1

extract_segments_and_carriers(itinerary_id) ==
  LET s  == itinerary_id
      n1 == DigitRun(s, 2)
      n2 == DigitRun(s, 4 + n1)
      match == /\ Len(s) >= 1 /\ s[1] = "s"
               /\ n1 >= 1
               /\ Len(s) >= 3 + n1 /\ s[2 + n1] = "-" /\ s[3 + n1] = "c"
               /\ n2 >= 1
  IN  IF match
      THEN <<ParseDigits(SubSeq(s, 2, 1 + n1), 0),
             ParseDigits(SubSeq(s, 4 + n1, 3 + n1 + n2), 0)>>
      ELSE <<NoCount, NoCount>>

\* lines 665-672 and 691-698: res[k] of every entry whose res is true; res
\* is a tuple of two elements, and a tuple that is not empty is true
values_if_res(data, k) ==
  LET res(i) == extract_segments_and_carriers(data[i].id)
      kept   == {i \in DOMAIN data : Len(res(i)) # 0}
  IN  [j \in DOMAIN Filter(data, kept, 1) |->
         extract_segments_and_carriers(Filter(data, kept, 1)[j].id)[k]]

\* analysis2.py, lines 83-93 and 113-123: the value of every entry whose
\* value is not None
values_if_not_none(data, k) ==
  LET res(i) == extract_segments_and_carriers(data[i].id)
      kept   == {i \in DOMAIN data : res(i)[k] # NoCount}
  IN  [j \in DOMAIN Filter(data, kept, 1) |->
         extract_segments_and_carriers(Filter(data, kept, 1)[j].id)[k]]

\* range(min(values), max(values) + 2): min() of an empty list raises
\* ValueError, and None is neither ordered nor added to
bins_error(values) ==
  IF values = <<>> THEN "ValueError"
  ELSE IF NoCount \in Range(values) THEN "TypeError"
  ELSE ""

\* ids no identity builder writes
ForeignIds ==
  {<<>>, <<"s">>, <<"s", "2", "c", "1">>, <<"s", "-", "c", "1">>,
   <<"x", "2", "-", "c", "1", "-", "K", "L", "-", "1", "2">>,
   <<"s", "1", "2", "-", "c", "1", "0", "-", "K", "L">>}

\* the entries a simplified file may hold: the records the normalizers
\* write for the offers, with the section and carrier counts of the raw
\* itinerary, and records with an id from elsewhere
PlotEntries ==
  {[id       |-> generate_itinerary_id(it),
    sections |-> Len(it.outbound \o it.inbound),
    carriers |-> Cardinality({(it.outbound \o it.inbound)[i].carrier :
                                i \in DOMAIN (it.outbound \o it.inbound)}),
    built    |-> TRUE] : it \in KiwiOffers}
  \cup
  {[id       |-> simplify_edreams_itinerary(it, segment_map, section_map,
                                            location_map).id,
    sections |-> count_sections(it.firstSegments \o it.secondSegments, segment_map),
    carriers |-> Cardinality(
                   {all_segs(simplify_edreams_itinerary(it, segment_map,
                       section_map, location_map))[i].carrierCode :
                      i \in DOMAIN all_segs(simplify_edreams_itinerary(it,
                                 segment_map, section_map, location_map))}),
    built    |-> TRUE] : it \in EdreamsOffers}
  \cup
  {[id |-> x, sections |-> 0, carriers |-> 0, built |-> FALSE] : x \in ForeignIds}

\* one more entry in kiwi-simplified.json or edreams-simplified.json
LoadEntry(entry, file) ==
  /\ plotpc = "load"
  /\ Len(plot_data.kiwi) + Len(plot_data.edreams) < MaxPlot
  /\ plot_data' = [plot_data EXCEPT ![file] = Append(@, entry)]
  /\ UNCHANGED <<plot, plotpc>>
  /\ UNCHANGED <<idvars, mainvars, poolvars>>

\* analysis-combined.py, lines 661-685; the loop of lines 713-719 has no
\* handler, so an exception ends the script before the carrier plot
SaveSectionDistribution ==
  /\ plotpc = "load"
  /\ LET kiwi_sections    == values_if_res(plot_data.kiwi, 1)
         edreams_sections == values_if_res(plot_data.edreams, 1)
         raised           == bins_error(kiwi_sections \o edreams_sections)
     IN  /\ plot' = [plot EXCEPT !.kiwi_sections = kiwi_sections,
                                 !.edreams_sections = edreams_sections,
                                 !.error = raised]
         /\ plotpc' = IF raised = "" THEN "carriers" ELSE "analysis2"
  /\ UNCHANGED plot_data
  /\ UNCHANGED <<idvars, mainvars, poolvars>>

\* analysis-combined.py, lines 687-711
SaveCarrierDistribution ==
  /\ plotpc = "carriers"
  /\ LET kiwi_carriers    == values_if_res(plot_data.kiwi, 2)
         edreams_carriers == values_if_res(plot_data.edreams, 2)
     IN  plot' = [plot EXCEPT !.kiwi_carriers = kiwi_carriers,
                              !.edreams_carriers = edreams_carriers,
                              !.error = bins_error(kiwi_carriers \o edreams_carriers)]
  /\ plotpc' = "analysis2"
  /\ UNCHANGED plot_data
  /\ UNCHANGED <<idvars, mainvars, poolvars>>

\* analysis2.py, lines 80-125, on the same two files
Analysis2Distributions ==
  /\ plotpc = "analysis2"
  /\ LET edreams_segments == values_if_not_none(plot_data.edreams, 1)
         kiwi_segments    == values_if_not_none(plot_data.kiwi, 1)
         edreams_carriers == values_if_not_none(plot_data.edreams, 2)
         kiwi_carriers    == values_if_not_none(plot_data.kiwi, 2)
     IN  plot' = [plot EXCEPT !.a2_edreams_segments = edreams_segments,
                              !.a2_kiwi_segments = kiwi_segments,
                              !.a2_edreams_carriers = edreams_carriers,
                              !.a2_kiwi_carriers = kiwi_carriers,
                              !.a2_error = bins_error(edreams_segments \o kiwi_segments)]
  /\ plotpc' = "done"
  /\ UNCHANGED plot_data
  /\ UNCHANGED <<idvars, mainvars, poolvars>>

PlotNext ==
  \/ \E entry \in PlotEntries, file \in {"kiwi", "edreams"} : LoadEntry(entry, file)
  \/ SaveSectionDistribution
  \/ SaveCarrierDistribution
  \/ Analysis2Distributions

\* ---------------------------------------------------------------------------
\* selenium-multisearch.py: the fetch sessions of the thread pool

\* the number of itineraries submitted to the pool
MaxSessions == 3

\* ThreadPoolExecutor(max_workers=10)
max_workers == 10

\* a prefix without the index: f"itinerary"
output_prefix_shared(idx) == <<"i", "t", "i", "n", "e", "r", "a", "r", "y">>

\* f"itinerary_{idx}"
output_prefix(idx) == <<"i", "t", "i", "n", "e", "r", "a", "r", "y", "_">> \o Str(idx)

\* f"{output_prefix}_final_response.json"
output_file(prefix) ==
  prefix \o <<"_", "f", "i", "n", "a", "l", "_", "r", "e", "s", "p", "o", "n", "s", "e",
              ".", "j", "s", "o", "n">>

Sessions == 1 .. MaxSessions

Working == {"driver", "search", "found", "opened", "finally", "failing"}

Finished == {"returned", "raised"}

\* for idx, itin in enumerate(itineraries, start=1): executor.submit(...)
Submit ==
  /\ main = "submit"
  /\ Len(futures) < MaxSessions
  /\ LET idx == Len(futures) + 1
     IN  futures' = Append(futures, [idx |-> idx, output_prefix |-> output_prefix(idx)])
  /\ UNCHANGED <<session, files, collected, reported, main>>
  /\ UNCHANGED <<idvars, mainvars, plotvars>>

\* the submission loop is over, the as_completed loop starts
SubmitDone ==
  /\ main = "submit"
  /\ Len(futures) = MaxSessions
  /\ main' = "collect"
  /\ UNCHANGED <<futures, session, files, collected, reported>>
  /\ UNCHANGED <<idvars, mainvars, plotvars>>

\* a free worker thread takes the submitted call
StartSession(i) ==
  /\ i <= Len(futures)
  /\ session[i] = "queued"
  /\ Cardinality({j \in Sessions : session[j] \in Working}) < max_workers
  /\ session' = [session EXCEPT ![i] = "driver"]
  /\ UNCHANGED <<futures, files, collected, reported, main>>
  /\ UNCHANGED <<idvars, mainvars, plotvars>>

\* driver = webdriver.Chrome(...), before the try: a failure leaves the call at once
CreateDriver(i, ok) ==
  /\ session[i] = "driver"
  /\ session' = [session EXCEPT ![i] = IF ok THEN "search" ELSE "raised"]
  /\ UNCHANGED <<futures, files, collected, reported, main>>
  /\ UNCHANGED <<idvars, mainvars, plotvars>>

\* search_flights, the load-more loop and get_network_response
Search(i, outcome) ==
  /\ session[i] = "search"
  /\ session' = [session EXCEPT ![i] = CASE outcome = "json" -> "found"
                                         [] outcome = "none" -> "finally"
                                         [] OTHER -> "failing"]
  /\ UNCHANGED <<futures, files, collected, reported, main>>
  /\ UNCHANGED <<idvars, mainvars, plotvars>>

\* open(output_file, 'w'): the file is created or truncated
OpenFile(i, ok) ==
  /\ session[i] = "found"
  /\ LET name == output_file(futures[i].output_prefix)
         old  == IF name \in DOMAIN files THEN files[name].writers ELSE {}
     IN  IF ok
         THEN /\ files' = [n \in DOMAIN files \cup {name} |->
                             IF n = name THEN [writers |-> old \cup {i}, content |-> 0]
                                         ELSE files[n]]
              /\ session' = [session EXCEPT ![i] = "opened"]
         ELSE /\ files' = files
              /\ session' = [session EXCEPT ![i] = "failing"]
  /\ UNCHANGED <<futures, collected, reported, main>>
  /\ UNCHANGED <<idvars, mainvars, plotvars>>

\* json.dump(final_json, f): the file holds this session's response
DumpJson(i) ==
  /\ session[i] = "opened"
  /\ LET name == output_file(futures[i].output_prefix)
     IN  files' = [files EXCEPT ![name].content = i]
  /\ session' = [session EXCEPT ![i] = "finally"]
  /\ UNCHANGED <<futures, collected, reported, main>>
  /\ UNCHANGED <<idvars, mainvars, plotvars>>

\* finally: driver.quit(); then the call returns or its exception goes on
Quit(i) ==
  /\ session[i] \in {"finally", "failing"}
  /\ session' = [session EXCEPT ![i] = IF session[i] = "finally" THEN "returned"
                                                                 ELSE "raised"]
  /\ UNCHANGED <<futures, files, collected, reported, main>>
  /\ UNCHANGED <<idvars, mainvars, plotvars>>

\* for future in as_completed(futures): try: future.result() except Exception: print
Collect(i) ==
  /\ main = "collect"
  /\ session[i] \in Finished
  /\ i \notin collected
  /\ collected' = collected \cup {i}
  /\ reported' = IF session[i] = "raised" THEN reported \cup {i} ELSE reported
  /\ UNCHANGED <<futures, session, files, main>>
  /\ UNCHANGED <<idvars, mainvars, plotvars>>

\* every future was yielded: the with block ends
PoolExit ==
  /\ main = "collect"
  /\ collected = Sessions
  /\ main' = "exit"
  /\ UNCHANGED <<futures, session, files, collected, reported>>
  /\ UNCHANGED <<idvars, mainvars, plotvars>>

SessionStep(i) ==
  \/ StartSession(i)
  \/ \E ok \in BOOLEAN : CreateDriver(i, ok)
  \/ \E outcome \in {"json", "none", "exception"} : Search(i, outcome)
  \/ \E ok \in BOOLEAN : OpenFile(i, ok)
  \/ DumpJson(i)
  \/ Quit(i)

PoolNext ==
  \/ Submit
  \/ SubmitDone
  \/ \E i \in Sessions : StartSession(i)
  \/ \E i \in Sessions, ok \in BOOLEAN : CreateDriver(i, ok)
  \/ \E i \in Sessions, outcome \in {"json", "none", "exception"} : Search(i, outcome)
  \/ \E i \in Sessions, ok \in BOOLEAN : OpenFile(i, ok)
  \/ \E i \in Sessions : DumpJson(i)
  \/ \E i \in Sessions : Quit(i)
  \/ \E i \in Sessions : Collect(i)
  \/ PoolExit

Next ==
  \/ \E itinerary \in KiwiOffers : FetchKiwi(itinerary)
  \/ \E itinerary \in EdreamsOffers : FetchEdreams(itinerary)
  \/ FetchDone
  \/ MapKiwi
  \/ MapEdreams
  \/ MapEdreamsTest7
  \/ Analysis2
  \/ Dedup
  \/ Reconcile
  \/ Cheapest
  \/ Compare
  \/ Overall
  \/ Hubs
  \/ Flights
  \/ Cheap
  \/ MissingCarriers
  \/ Distribution

\* both parts start empty
Init ==
  /\ trip = [out |-> <<>>, in |-> <<>>]
  /\ raw_kiwi = [outbound |-> <<>>, inbound |-> <<>>, price |-> <<"1">>]
  /\ raw_edo = [itinerary   |-> [firstSegments |-> <<1>>, secondSegments |-> <<2>>,
                                 sortPrice |-> 1, fee |-> 0],
                segment_map |-> (1 :> [sections |-> <<>>, carrier |-> 0])
                                 @@ (2 :> [sections |-> <<>>, carrier |-> 0]),
                section_map |-> <<>>]
  /\ raw_keys = [firstSegmentsKeys |-> <<>>, secondSegmentsKeys |-> <<>>,
                 thirdSegmentsKeys |-> <<>>, fourthSegmentsKeys |-> <<>>,
                 sortPrice |-> 1]
  /\ ids = NoIds
  /\ records = NoIds
  /\ twin = [price |-> 1, station |-> 0, time |-> "", ids |-> NoIds]
  /\ idpc = "build"
  /\ hub_count = 0
  /\ plot_data = [kiwi |-> <<>>, edreams |-> <<>>]
  /\ plot = [kiwi_sections |-> <<>>, edreams_sections |-> <<>>,
             kiwi_carriers |-> <<>>, edreams_carriers |-> <<>>, error |-> "",
             a2_kiwi_segments |-> <<>>, a2_edreams_segments |-> <<>>,
             a2_kiwi_carriers |-> <<>>, a2_edreams_carriers |-> <<>>,
             a2_error |-> ""]
  /\ plotpc = "load"
  /\ futures = <<>>
  /\ session = [i \in 1 .. MaxSessions |-> "queued"]
  /\ files = <<>>
  /\ collected = {}
  /\ reported = {}
  /\ main = "submit"
  /\ kiwi_response = <<>>
  /\ edreams_response = <<>>
  /\ kiwi_data = <<>>
  /\ edreams_data = <<>>
  /\ edreams_mapper = ""
  /\ pc = "fetch"
  /\ error = ""
  /\ failed_at = ""
  /\ a2 = Unset
  /\ unique_kiwi = <<>>
  /\ total_unique_kiwi = 0
  /\ kiwi_itinerary_ids = {}
  /\ edreams_itinerary_ids = {}
  /\ repeated_itineraries = {}
  /\ missing_in_edreams = {}
  /\ cheapest = Unset
  /\ compare = Unset
  /\ overall = Unset
  /\ hubs = Unset
  /\ hub_breakdown = <<>>
  /\ flights = Unset
  /\ cheap = Unset
  /\ carriers = Unset
  /\ distribution = Unset

\* the pipeline, with the identity variables at rest
Spec == Init /\ [][Next]_vars

\* the identity builders alone, with the pipeline at rest
SpecId == Init /\ [][IdNext]_vars

\* the plots drawn from the ids of two simplified files
SpecPlots == Init /\ [][PlotNext]_vars

\* the thread pool of fetch sessions
SpecPool == Init /\ [][PoolNext]_vars

\* ------------------------------------------------- what the claims read
WithId(data, x) == {i \in DOMAIN data : data[i].id = x}
FirstIndex(data, x) == Min(WithId(data, x))
\* the lowest price among the Kiwi records with identity x
MinKiwiPrice(x) == Min({float(kiwi_data[i].price) : i \in WithId(kiwi_data, x)})
\* the lowest price among the eDreams records with identity x
MinEdreamsPrice(x) == Min({edreams_data[i].price : i \in WithId(edreams_data, x)})
\* the first Kiwi record that carries the lowest price of its identity
FirstMinIndex(x) ==
  Min({i \in WithId(kiwi_data, x) : float(kiwi_data[i].price) = MinKiwiPrice(x)})

RECURSIVE SumOver(_, _)
SumOver(S, f) ==
  IF S = {} THEN 0
  ELSE LET x == CHOOSE y \in S : TRUE IN f[x] + SumOver(S \ {x}, f)

\* p/q = n as numbers
Equals(r, n) == r[2] # 0 /\ r[1] = n * r[2]
\* p/q = n/d as numbers
SameRatio(r, n, d) == r[2] # 0 /\ d # 0 /\ r[1] * d = n * r[2]

\* C3: deduplication keeps exactly one record per identity of the list, the
\* first-seen record among those with the lowest (numeric) price.
C3_DedupKeepsFirstCheapest ==
  (Past("dedup") /\ ~Past("distribution")) =>
    /\ ids_of(unique_kiwi) = ids_of(kiwi_data)
    /\ \A x \in ids_of(kiwi_data) : Cardinality(WithId(unique_kiwi, x)) = 1
    /\ \A k \in DOMAIN unique_kiwi :
         unique_kiwi[k] = kiwi_data[FirstMinIndex(unique_kiwi[k].id)]

\* two different records of one identity at the same lowest price
C3_Witness ==
  /\ Past("dedup")
  /\ ~Past("distribution")
  /\ \E i, j \in DOMAIN kiwi_data :
       /\ i < j
       /\ kiwi_data[i].id = kiwi_data[j].id
       /\ kiwi_data[i].price = kiwi_data[j].price
       /\ kiwi_data[i] # kiwi_data[j]
       /\ kiwi_data[i] \in Range(unique_kiwi)

\* C4: deduplicating the records of a deduplicated collection gives the same
\* collection.
C4_DedupIdempotent ==
  (Past("dedup") /\ ~Past("distribution")) => deduplicate(unique_kiwi) = unique_kiwi

\* a collection that deduplication made smaller than its list
C4_Witness ==
  /\ Past("dedup")
  /\ ~Past("distribution")
  /\ unique_kiwi # <<>>
  /\ Len(unique_kiwi) < Len(kiwi_data)

\* C5: repeated is the set of identities in both collections, onlyInA and
\* onlyInB are the keys of each minus repeated, repeated is symmetric, and the
\* three sets are pairwise disjoint and cover the identities of A and B.
C5_Reconciliation ==
  Past("reconcile") =>
    LET A        == ids_of(kiwi_data)
        B        == ids_of(edreams_data)
        repeated == repeated_itineraries
        onlyInA  == missing_in_edreams
        onlyInB  == a2.missing_in_kiwi
    IN  /\ repeated = {x \in A \cup B : x \in A /\ x \in B}
        /\ a2.repeated_itineraries = repeated
        /\ intersection(edreams_itinerary_ids, kiwi_itinerary_ids) = repeated
        /\ onlyInA = A \ repeated
        /\ a2.missing_in_edreams = onlyInA
        /\ onlyInB = B \ repeated
        /\ repeated \cap onlyInA = {}
        /\ repeated \cap onlyInB = {}
        /\ onlyInA \cap onlyInB = {}
        /\ repeated \cup onlyInA \cup onlyInB = A \cup B

\* all three sets non-empty
C5_Witness ==
  /\ Past("reconcile")
  /\ repeated_itineraries # {}
  /\ missing_in_edreams # {}
  /\ a2.missing_in_kiwi # {}

\* the only repeated identity costs 150 at Kiwi and 120 at eDreams
Scenario150vs120 ==
  /\ Cardinality(repeated_itineraries) = 1
  /\ \A x \in repeated_itineraries :
       /\ \A i \in WithId(kiwi_data, x) : float(kiwi_data[i].price) = 150
       /\ \A i \in WithId(edreams_data, x) : edreams_data[i].price = 120

C7_ComparisonUsesDeduplicatedPrices ==
  Past("compare") =>
    LET Delta(x) == MinEdreamsPrice(x) - MinKiwiPrice(x)
    IN  /\ compare.price_diff_sum = SumOver(repeated_itineraries, [x \in repeated_itineraries |-> Delta(x)])
        /\ compare.eDreams_cheaper_count =
             Cardinality({x \in repeated_itineraries :
                            MinEdreamsPrice(x) < MinKiwiPrice(x)})
        /\ compare.kiwi_cheaper_count =
             Cardinality({x \in repeated_itineraries :
                            MinKiwiPrice(x) < MinEdreamsPrice(x)})

\* C8: the overall Kiwi-cheaper percentage is 100 * (non-repeated A below
\* B's lowest price + repeated where A is strictly cheaper) / (unique A +
\* unique B - repeated), all over deduplicated collections, and at most 100.
C8_OverallKiwiCheaper ==
  Past("overall") =>
    LET A        == ids_of(kiwi_data)
        B        == ids_of(edreams_data)
        repeated == A \cap B
        minB     == Min({MinEdreamsPrice(x) : x \in B})
        below    == {x \in A \ repeated : MinKiwiPrice(x) < minB}
        cheaperA == {x \in repeated : MinKiwiPrice(x) < MinEdreamsPrice(x)}
        total    == Cardinality(A) + Cardinality(B) - Cardinality(repeated)
    IN  /\ SameRatio(overall.percent_kiwi_cheaper_overall,
                     100 * (Cardinality(below) + Cardinality(cheaperA)), total)
        /\ SameRatio(a2.percent_kiwi_cheaper_overall,
                     100 * (Cardinality(below) + Cardinality(cheaperA)), total)
        /\ overall.percent_kiwi_cheaper_overall[1]
             <= 100 * overall.percent_kiwi_cheaper_overall[2]

\* C9: with an empty collection on either side the analysis completes without
\* an error, repeated is empty, onlyInA is all of A and the percentages
\* against the empty side are 0.
C9_EmptyCollectionCompletes ==
  (Past("map_edreams") /\ (kiwi_data = <<>> \/ edreams_data = <<>>)) =>
    /\ pc # "error"
    /\ Past("analysis2") => a2.error = ""
    /\ Past("reconcile") =>
         /\ repeated_itineraries = {}
         /\ missing_in_edreams = ids_of(kiwi_data)
    /\ (Past("cheapest") /\ edreams_data = <<>>) =>
         cheapest.percent_over_edreams = Zero

\* the ratios of a stage were all computed without a division by zero
Divided(stage, ratios) == \A r \in ratios : stage[r][2] # 0

\* C10: no division by zero occurs on any input, and every ratio of the
\* analysis whose denominator is 0 is reported as 0.
C10_NoDivisionByZero ==
  /\ error # "ZeroDivisionError"
  /\ Past("analysis2") =>
       /\ a2.error # "ZeroDivisionError"
       /\ a2.error = "" =>
            /\ Divided(a2.compare, CompareRatios)
            /\ a2.percent_kiwi_cheaper_overall[2] # 0
            /\ a2.repeated_itineraries = {} =>
                 /\ a2.compare.percent_kiwi_cheaper_repeated = Zero
                 /\ a2.compare.overall_avg_price_diff = Zero
  /\ Past("cheapest") =>
       Divided(cheapest, {"percent_over_kiwi", "percent_over_edreams"})
  /\ Past("compare") =>
       /\ Divided(compare, CompareRatios)
       /\ repeated_itineraries = {} =>
            /\ compare.percent_eDreams_cheaper_repeated = Zero
            /\ compare.percent_kiwi_cheaper_repeated = Zero
            /\ compare.overall_avg_price_diff = Zero
       /\ compare.eDreams_cheaper_count = 0 => compare.avg_diff_eDreams_cheaper = Zero
       /\ compare.kiwi_cheaper_count = 0 => compare.avg_diff_kiwi_cheaper = Zero
  /\ Past("overall") => overall.percent_kiwi_cheaper_overall[2] # 0
  /\ Past("hubs") =>
       /\ Divided(hubs, {"missing_content_pct", "repeated_percent_kiwi",
                         "repeated_percent_edreams", "missing_hub_itinerary_pct",
                         "missing_hub_cheaper_itinerary_pct"})
       /\ cheapest.cheaper_than_edo_cheapest_count = 0 =>
            hubs.missing_hub_cheaper_itinerary_pct = Zero
  /\ Past("flights") =>
       /\ Divided(flights, {"constructible_pct", "constructible_cheap_pct"})
       /\ missing_in_edreams = {} => flights.constructible_pct = Zero
       /\ flights.cheap_kiwi_itins = <<>> => flights.constructible_cheap_pct = Zero
  /\ Past("cheap") =>
       /\ Divided(cheap, {"cheap_kiwi_with_FR_pct", "cheap_missing_nonhub_with_FR_pct"})
       /\ cheap.cheap_kiwi_total = 0 => cheap.cheap_kiwi_with_FR_pct = Zero
       /\ cheap.cheap_missing_nonhub_count = 0 =>
            cheap.cheap_missing_nonhub_with_FR_pct = Zero
  /\ Past("carriers") =>
       /\ Divided(carriers, {"missing_hub_cities_pct"})
       /\ carriers.total_unique_cities = 2 => carriers.missing_hub_cities_pct = Zero
  /\ Past("distribution") =>
       \A item \in Range(distribution.hubs_distribution_all)
                    \cup Range(distribution.hubs_distribution_cheap) : item.pct[2] # 0

\* a finished analysis in which several denominators were 0
C10_Witness ==
  /\ pc = "done"
  /\ repeated_itineraries = {}
  /\ compare.overall_avg_price_diff = Zero
  /\ cheap.cheap_kiwi_total = 0
  /\ distribution.hubs_distribution_cheap = <<>>

\* C1: built from the same ordered (carrier, flight number) pairs and the same
\* section count, the Kiwi mapper and every eDreams mapper give the same
\* identity, the itinerary with no segment included.
C1_SameIdentityAcrossSources ==
  idpc = "done" =>
    /\ ids.kiwi = ids.edo
    /\ ids.kiwi = ids.t7
    /\ ids.kiwi = ids.pruebas

\* the identity of section 3 of the specification, from the pairs themselves
ExpectedIdentity(pairs) ==
  <<"s">> \o Str(Len(pairs)) \o <<"-", "c">>
    \o Str(Cardinality({pairs[i][1] : i \in DOMAIN pairs}))
    \o Concat([i \in DOMAIN pairs |-> Dash \o pairs[i][1] \o Dash \o pairs[i][2]])

\* C2: the identity is s{sectionCount}-c{carrierCount} followed by
\* -{carrierCode}-{flightNumber} for each segment, outbound then inbound, the
\* carrier count being the number of distinct carrier codes.
C2_IdentityFormat ==
  idpc = "done" =>
    /\ ids.edo = ExpectedIdentity(trip.out \o trip.in)
    /\ ids.kiwi = ExpectedIdentity(trip.out \o trip.in)

\* ---------------------------------------------------------------- C11
\* the (carrier, flight number) pairs of the segments of a Kiwi record
KiwiPairs(itin) ==
  {<<all_segs(itin)[k].carrierCode, all_segs(itin)[k].flightCode>> :
     k \in DOMAIN all_segs(itin)}

\* the flight number of a segment of an eDreams record: analysis-combined.py
\* stores the flight code with its carrier prefix, test7/mapper-edo.py
\* without it
EdreamsFlightNumber(seg) ==
  IF edreams_mapper = "analysis-combined.py" THEN Drop2(seg.flightCode)
  ELSE seg.flightCode

\* the (carrier, flight number) pairs flown by some eDreams itinerary
EdreamsPairs ==
  UNION {{<<all_segs(edreams_data[i])[k].carrierCode,
            EdreamsFlightNumber(all_segs(edreams_data[i])[k])>> :
            k \in {j \in DOMAIN all_segs(edreams_data[i]) :
                     all_segs(edreams_data[i])[j].flightCode # <<>>}} :
           i \in DOMAIN edreams_data}

\* the deduplicated Kiwi records that eDreams does not offer
OnlyInA == {i \in DOMAIN unique_kiwi : unique_kiwi[i].id \in missing_in_edreams}

\* C11: once the flight coverage is computed, the constructible count is the
\* number of onlyInA itineraries every (carrier, flight number) pair of which
\* is flown by some eDreams itinerary.
C11_ConstructibleIffFlightsInB ==
  (Past("flights") /\ ~Past("distribution")) =>
    flights.constructible_count =
      Cardinality({i \in OnlyInA : KiwiPairs(unique_kiwi[i]) \subseteq EdreamsPairs})

\* ---------------------------------------------------------------- C12
\* the onlyInA itineraries priced below the cheapest eDreams price that pass
\* the subset test of the analysis
CheapOnlyInAConstructible ==
  {i \in OnlyInA :
     /\ float(unique_kiwi[i].price) < cheapest.cheapest_edreams_price
     /\ constructible(unique_kiwi[i], flights.edreams_flights)}

\* C12: the "constructible among cheap" count counts only onlyInA
\* itineraries priced below the cheapest eDreams price, never a repeated
\* one, so it is at most the constructible count over all onlyInA
\* itineraries.
C12_CheapConstructibleOnlyInA ==
  (Past("flights") /\ ~Past("distribution")) =>
    /\ flights.constructible_cheap_count = Cardinality(CheapOnlyInAConstructible)
    /\ flights.constructible_cheap_count <= flights.constructible_count

\* ---------------------------------------------------------------- C13
Stations == {MAD, AMS, JFK, STN, EWR}

\* station s is the source or the destination of a segment of the record
Touches(itin, s) ==
  \/ \E k \in DOMAIN itin.outbound :
       itin.outbound[k].sourceStationId = s \/ itin.outbound[k].destinationStationId = s
  \/ \E k \in DOMAIN itin.inbound :
       itin.inbound[k].sourceStationId = s \/ itin.inbound[k].destinationStationId = s

\* the stations of the deduplicated Kiwi records that no eDreams record has
MissingHubs ==
  {s \in Stations : /\ \E i \in DOMAIN unique_kiwi : Touches(unique_kiwi[i], s)
                    /\ \A i \in DOMAIN edreams_data : ~Touches(edreams_data[i], s)}

\* C13: the missing hubs are the stations on some Kiwi segment and on no
\* eDreams segment; the breakdown has one row per missing hub, its usage is
\* the number of deduplicated Kiwi itineraries touching the hub and its
\* cheaper usage the number of those priced below the cheapest eDreams
\* price, which is at most the usage.
C13_MissingHubsAndUsage ==
  (Past("hubs") /\ ~Past("distribution")) =>
    /\ hubs.missing_locations = MissingHubs
    /\ Len(hub_breakdown) = Cardinality(MissingHubs)
    /\ {hub_breakdown[j].Hub : j \in DOMAIN hub_breakdown} = MissingHubs
    /\ \A j \in DOMAIN hub_breakdown :
         /\ hub_breakdown[j].Usage =
              Cardinality({i \in DOMAIN unique_kiwi :
                             Touches(unique_kiwi[i], hub_breakdown[j].Hub)})
         /\ hub_breakdown[j].Cheaper_Usage =
              Cardinality({i \in DOMAIN unique_kiwi :
                             /\ Touches(unique_kiwi[i], hub_breakdown[j].Hub)
                             /\ float(unique_kiwi[i].price)
                                  < cheapest.cheapest_edreams_price})
         /\ hub_breakdown[j].Cheaper_Usage <= hub_breakdown[j].Usage

\* two missing hubs, one of them touched by two itineraries of which only
\* one is below the cheapest eDreams price
C13_Witness ==
  /\ Past("hubs")
  /\ ~Past("distribution")
  /\ Len(hub_breakdown) = 2
  /\ \E j \in DOMAIN hub_breakdown :
       hub_breakdown[j].Usage = 2 /\ hub_breakdown[j].Cheaper_Usage = 1

\* ---------------------------------------------------------------- C14
\* carrier + flight number of the flights of the onlyInA itineraries
OnlyInAFlights ==
  {pair[1] \o pair[2] : pair \in UNION {KiwiPairs(unique_kiwi[i]) : i \in OnlyInA}}
\* carrier + flight number of the flights of the eDreams itineraries
EdreamsFlights == {pair[1] \o pair[2] : pair \in EdreamsPairs}

\* C14: the missing flights are the carrier + flight number strings flown
\* by some onlyInA itinerary and by no eDreams itinerary; no flight that
\* eDreams flies is among them.
C14_MissingFlights ==
  (Past("flights") /\ ~Past("distribution")) =>
    /\ flights.missing_flights = OnlyInAFlights \ EdreamsFlights
    /\ flights.missing_flights \cap EdreamsFlights = {}

\* ---------------------------------------------------------------- C15
\* the carrier codes of the Kiwi segments that fly a missing flight
MissingFlightCarriers ==
  UNION {{all_segs(unique_kiwi[i])[k].carrierCode :
            k \in {j \in DOMAIN all_segs(unique_kiwi[i]) :
                     all_segs(unique_kiwi[i])[j].carrierCode
                         \o all_segs(unique_kiwi[i])[j].flightCode
                       \in flights.missing_flights}} :
           i \in OnlyInA}

\* the carrier codes on the segments of the eDreams records
EdreamsCarriers ==
  UNION {{all_segs(edreams_data[i])[k].carrierCode :
            k \in {j \in DOMAIN all_segs(edreams_data[i]) :
                     all_segs(edreams_data[i])[j].carrierCode # <<>>}} :
           i \in DOMAIN edreams_data}

\* C15: the missing carriers are the carrier codes of the segments flying a
\* missing flight that are on no segment of any eDreams itinerary, whatever
\* the length of the code.
C15_MissingCarriers ==
  (Past("carriers") /\ ~Past("distribution")) =>
    carriers.missing_carriers = MissingFlightCarriers \ EdreamsCarriers

\* ---------------------------------------------------------------- C16
\* the largest element of a non-empty set of integers
Largest(S) == CHOOSE m \in S : \A x \in S : x <= m

\* C16: the hub count of an itinerary is the largest of its outbound segment
\* count less one, its inbound segment count less one, and 0; it is never
\* negative.
C16_HubCount ==
  idpc = "counted" =>
    /\ hub_count = Largest({Len(trip.out) - 1, Len(trip.in) - 1, 0})
    /\ hub_count >= 0
    /\ (trip.out = <<>> /\ trip.in = <<>>) => hub_count = 0

\* three outbound segments and one inbound segment give 2
C16_Witness ==
  /\ idpc = "counted"
  /\ hub_count = 2
  /\ Len(trip.out) = 3
  /\ Len(trip.in) = 1

\* ---------------------------------------------------------------- C17
\* the hub count of a record, from the lengths of its legs
HubsOf(itin) == Largest({Len(itin.outbound) - 1, Len(itin.inbound) - 1, 0})

\* dist is the hub distribution of the collection and formatted its printed
\* form: each occurring hub count with its frequency, frequencies summing to
\* the size of the collection, percentages over that size, counts ascending
IsDistributionOf(dist, formatted, collection) ==
  /\ DOMAIN dist = {HubsOf(collection[i]) : i \in DOMAIN collection}
  /\ \A count \in DOMAIN dist :
       dist[count] = Cardinality({i \in DOMAIN collection :
                                    HubsOf(collection[i]) = count})
  /\ SumOver(DOMAIN dist, dist) = Len(collection)
  /\ Len(formatted) = Cardinality(DOMAIN dist)
  /\ \A i \in DOMAIN formatted :
       /\ formatted[i].k \in DOMAIN dist
       /\ formatted[i].v = dist[formatted[i].k]
       /\ SameRatio(formatted[i].pct, 100 * formatted[i].v, Len(collection))
  /\ \A i, j \in DOMAIN formatted : i < j => formatted[i].k < formatted[j].k

\* C17: the hub distribution of each analysed collection (all deduplicated
\* Kiwi itineraries, and those below the cheapest eDreams price) maps every
\* occurring hub count to its frequency, the frequencies sum to the size of
\* that collection, each percentage is 100 * frequency / that size, and the
\* formatted entries are in ascending order of hub count.
C17_HubDistribution ==
  pc = "done" =>
    /\ IsDistributionOf(distribution.all_hub_dist,
                        distribution.hubs_distribution_all,
                        distribution.unique_kiwi)
    /\ IsDistributionOf(distribution.cheap_hub_dist,
                        distribution.hubs_distribution_cheap,
                        distribution.unique_cheap)

\* two hub counts occur among all itineraries and one among the cheap ones,
\* a smaller collection
C17_Witness ==
  /\ pc = "done"
  /\ Len(distribution.hubs_distribution_all) = 2
  /\ Len(distribution.hubs_distribution_cheap) = 1
  /\ Len(distribution.unique_cheap) < Len(distribution.unique_kiwi)

\* ---------------------------------------------------------------- C18
\* the membership fee found in a raw eDreams itinerary, 0 when it has none
FeeOf(itinerary) == IF "fee" \in DOMAIN itinerary THEN itinerary.fee ELSE 0

\* C18: whichever eDreams normalizer wrote them, the price of each
\* normalized record is the sortPrice of its raw itinerary plus the
\* membership fee of that itinerary, 0 when absent.
C18_PriceIsBasePlusFee ==
  Past("map_edreams") =>
    /\ Len(edreams_data) = Len(edreams_response)
    /\ \A i \in DOMAIN edreams_data :
         edreams_data[i].price
           = edreams_response[i].sortPrice + FeeOf(edreams_response[i])

\* ---------------------------------------------------------------- C19
\* the sections a list of segment ids leads to through the legend: (p, q)
\* is section q of the p-th segment id, for segment ids the segment map
\* describes and section ids the section map describes
DescribedSections(segment_ids) ==
  {<<p, q>> \in (DOMAIN segment_ids) \X (1..MaxSegs) :
     /\ segment_ids[p] \in DOMAIN segment_map
     /\ q \in DOMAIN segment_map[segment_ids[p]].sections
     /\ segment_map[segment_ids[p]].sections[q] \in DOMAIN section_map}

\* C19: a segment id the segment map does not describe and a section id
\* the section map does not describe are skipped: each leg of a normalized
\* record has one segment record per described section and none for the
\* others, and the itinerary is still extracted.
C19_DanglingReferencesSkipped ==
  Past("map_edreams") =>
    /\ Len(edreams_data) = Len(edreams_response)
    /\ \A i \in DOMAIN edreams_data :
         /\ Len(edreams_data[i].outbound)
              = Cardinality(DescribedSections(edreams_response[i].firstSegments))
         /\ Len(edreams_data[i].inbound)
              = Cardinality(DescribedSections(edreams_response[i].secondSegments))

\* ---------------------------------------------------------------- C20
\* the record has a price that reads as a number
Priced(record) == record.price # None

\* C20: a record without a usable price is left out and the analysis goes
\* on over the other records: the run is not aborted on a price unless
\* every Kiwi record lacks one, and the deduplicated collection then holds
\* exactly the identities of the priced records.
C20_UnpricedRecordsExcluded ==
  /\ (pc = "error" /\ error = "TypeError") =>
       \A i \in DOMAIN kiwi_data : ~Priced(kiwi_data[i])
  /\ (Past("dedup") /\ ~Past("distribution")) =>
       ids_of(unique_kiwi)
         = {kiwi_data[i].id : i \in {j \in DOMAIN kiwi_data : Priced(kiwi_data[j])}}

\* ---------------------------------------------------------------- C21
\* s.split("-")
RECURSIVE SplitDash(_, _)
SplitDash(s, cur) ==
  IF s = <<>> THEN <<cur>>
  ELSE IF Head(s) = "-" THEN <<cur>> \o SplitDash(Tail(s), <<>>)
  ELSE SplitDash(Tail(s), Append(cur, Head(s)))

\* the (carrier, flight number) pairs an identity encodes after its
\* s{n}-c{m} prefix
IdentityPairs(id) ==
  LET tokens == SplitDash(id, <<>>)
      rest   == Filter(tokens, {i \in DOMAIN tokens : i > 2 /\ tokens[i] # <<>>}, 1)
  IN  [i \in 1..(Len(rest) \div 2) |-> <<rest[2 * i - 1], rest[2 * i]>>]

\* the (carrierCode, flightCode) values of a list of segments, in its order
SegmentPairs(segments) ==
  [i \in DOMAIN segments |-> <<segments[i].carrierCode, segments[i].flightCode>>]

\* the lists of a record keep the order of the raw itinerary, and the
\* identity of the record encodes outbound then inbound, value for value
KeepsOrderAndEncodes(record) ==
  /\ Len(record.outbound) = Len(trip.out)
  /\ Len(record.inbound) = Len(trip.in)
  /\ \A i \in DOMAIN record.outbound :
       record.outbound[i].carrierCode = trip.out[i][1]
  /\ \A i \in DOMAIN record.inbound :
       record.inbound[i].carrierCode = trip.in[i][1]
  /\ IdentityPairs(record.id)
       = SegmentPairs(record.outbound) \o SegmentPairs(record.inbound)

\* C21: the outbound and inbound lists of every record a normalizer emits
\* keep the order of the raw source, and the (carrier, flight number) pairs
\* its identity encodes are the pairs read from outbound then inbound: same
\* segments, same order, same field values.
C21_ListsKeepOrderAndMatchIdentity ==
  idpc # "build" =>
    /\ KeepsOrderAndEncodes(records.kiwi)
    /\ KeepsOrderAndEncodes(records.t7)
    /\ KeepsOrderAndEncodes(records.edo)
    /\ KeepsOrderAndEncodes(records.pruebas)

\* ---------------------------------------------------------------- C22
\* C22: two runs of analyze_journey on the same inputs report the same
\* results, the order of the rows of the hub breakdown included: the rows
\* the run produced are in the only order any run on these inputs can
\* produce, whatever the iteration order of the set of missing hubs.
C22_HubBreakdownOrderDetermined ==
  Past("hubs") =>
    \A order \in Orders(hubs.missing_locations) :
      [k \in DOMAIN hub_breakdown |-> hub_breakdown[k].Hub] = order

ThreeWay(cmp, repeated, a, b) ==
  LET ACheaper == {x \in repeated : a[x] < b[x]}
      BCheaper == {x \in repeated : b[x] < a[x]}
      Ties     == {x \in repeated : a[x] = b[x]}
      pa       == cmp.percent_kiwi_cheaper_repeated
      pb       == cmp.percent_eDreams_cheaper_repeated
  IN  /\ cmp.kiwi_cheaper_count = Cardinality(ACheaper)
      /\ cmp.eDreams_cheaper_count = Cardinality(BCheaper)
      /\ \A x \in repeated :
           Cardinality({S \in {ACheaper, BCheaper, Ties} : x \in S}) = 1
      /\ cmp.kiwi_cheaper_count + cmp.eDreams_cheaper_count + Cardinality(Ties)
           = cmp.total_repeated
      /\ cmp.total_repeated = Cardinality(repeated)
      /\ pa[1] * pb[2] + pb[1] * pa[2] <= 100 * pa[2] * pb[2]

\* the price each comparison reads for an identity of both sources: the
\* deduplicated Kiwi record or the first Kiwi record, against the first
\* eDreams record
KiwiDedupPrice ==
  [x \in ids_of(kiwi_data) \cap ids_of(edreams_data) |-> MinKiwiPrice(x)]
KiwiFirstPrice ==
  [x \in ids_of(kiwi_data) \cap ids_of(edreams_data) |->
     float(kiwi_data[FirstIndex(kiwi_data, x)].price)]
EdreamsFirstPrice ==
  [x \in ids_of(kiwi_data) \cap ids_of(edreams_data) |->
     edreams_data[FirstIndex(edreams_data, x)].price]

\* C24: every repeated identity is in exactly one of A-cheaper (A price
\* strictly lower), B-cheaper (B price strictly lower) and tie (equal
\* prices, counted on neither side); the two counts and the ties add up to
\* the repeated count and the two percentages to at most 100.
C24_CheaperOrTie ==
  /\ Past("compare") =>
       ThreeWay(compare, repeated_itineraries, KiwiDedupPrice, EdreamsFirstPrice)
  /\ (Past("analysis2") /\ a2.error = "") =>
       ThreeWay(a2.compare, a2.repeated_itineraries, KiwiFirstPrice,
                EdreamsFirstPrice)

\* a repeated identity at the same price on both sides, counted for neither
C24_Witness ==
  /\ Past("compare")
  /\ \E x \in repeated_itineraries : KiwiDedupPrice[x] = EdreamsFirstPrice[x]
  /\ compare.total_repeated = 1
  /\ compare.kiwi_cheaper_count = 0
  /\ compare.eDreams_cheaper_count = 0

\* ---------------------------------------------------------------- C25
\* C25: the key-based eDreams normalizer puts every extracted segment in at
\* most one of outbound and inbound, according to the key list of the source
\* that contains it: a segment read from a key of firstSegmentsKeys is in
\* outbound, and nothing is in a list that no key of that list names.
C25_PlacedByKeyList ==
  idpc # "build" =>
    LET r == records.pruebas
    IN  /\ Len(r.outbound) + Len(r.inbound) <= Len(trip.out) + Len(trip.in)
        /\ \A i \in DOMAIN trip.out : trip.out[i] \in Range(SegmentPairs(r.outbound))
        /\ Range(SegmentPairs(r.outbound)) \subseteq Range(trip.out)
        /\ Range(SegmentPairs(r.inbound)) \subseteq Range(trip.in)

\* ---------------------------------------------------------------- C26
\* the id starts with s{num}-c{num}: "s", a digits, "-c", b digits
StartsWithCounts(id) ==
  \E a \in 1..Len(id), b \in 1..Len(id) :
    /\ Len(id) >= 3 + a + b
    /\ id[1] = "s"
    /\ \A i \in 2..(1 + a) : id[i] \in {"0", "1", "2", "3", "4", "5", "6", "7", "8", "9"}
    /\ id[2 + a] = "-"
    /\ id[3 + a] = "c"
    /\ \A i \in (4 + a)..(3 + a + b) :
         id[i] \in {"0", "1", "2", "3", "4", "5", "6", "7", "8", "9"}

\* the entries of a file whose id starts with s{num}-c{num}
Matching(data) == {i \in DOMAIN data : StartsWithCounts(data[i].id)}

\* extract_segments_and_carriers on the ids the identity builders wrote and
\* on the ids that do not start with s{num}-c{num}
ExtractInvertsPrefix ==
  \A entry \in Range(plot_data.kiwi \o plot_data.edreams) :
    /\ entry.built =>
         extract_segments_and_carriers(entry.id) = <<entry.sections, entry.carriers>>
    /\ ~StartsWithCounts(entry.id) =>
         extract_segments_and_carriers(entry.id) = <<NoCount, NoCount>>

\* C26: extract_segments_and_carriers returns (sectionCount, carrierCount)
\* for every identity an identity builder wrote and (None, None) for an id
\* that does not start with s{num}-c{num}, and the entries with such an id
\* contribute no value to the section and carrier distributions.
C26_ExtractInvertsPrefix ==
  /\ ExtractInvertsPrefix
  /\ plotpc # "load" =>
       /\ Len(plot.kiwi_sections) = Cardinality(Matching(plot_data.kiwi))
       /\ Len(plot.edreams_sections) = Cardinality(Matching(plot_data.edreams))
       /\ NoCount \notin Range(plot.kiwi_sections \o plot.edreams_sections)
       /\ NoCount \notin Range(plot.kiwi_carriers \o plot.edreams_carriers)
  /\ plotpc = "done" =>
       /\ Len(plot.a2_kiwi_segments) = Cardinality(Matching(plot_data.kiwi))
       /\ Len(plot.a2_edreams_segments) = Cardinality(Matching(plot_data.edreams))
       /\ Len(plot.a2_kiwi_carriers) = Cardinality(Matching(plot_data.kiwi))
       /\ Len(plot.a2_edreams_carriers) = Cardinality(Matching(plot_data.edreams))

\* ---------------------------------------------------------------- C27
\* C27: the reported count of Kiwi itineraries cheaper than the cheapest
\* eDreams itinerary is the number of deduplicated Kiwi itineraries priced
\* below the lowest eDreams price; it never exceeds the number of unique
\* Kiwi itineraries, so its percentage of Kiwi is at most 100, also when
\* the list holds several records of one identity.
C27_CheaperThanCheapestCount ==
  Past("cheapest") =>
    LET unique_ids == ids_of(kiwi_data)
        below      == {x \in unique_ids :
                         MinKiwiPrice(x) < cheapest.cheapest_edreams_price}
    IN  /\ cheapest.cheaper_than_edo_cheapest_count = Cardinality(below)
        /\ cheapest.cheaper_than_edo_cheapest_count <= Cardinality(unique_ids)
        /\ cheapest.percent_over_kiwi[1] <= 100 * cheapest.percent_over_kiwi[2]

\* ---------------------------------------------------------------- C28
\* C28: with both lists written by the normalizers of the repository, every
\* flight string (carrier + flight number) of a Kiwi itinerary whose
\* identity is in both sources is in the flight universe of eDreams: a
\* flight reads the same from a Kiwi record and from an eDreams record.
C28_RepeatedFlightsInEdreamsUniverse ==
  Past("flights") =>
    \A i \in DOMAIN kiwi_data :
      kiwi_data[i].id \in repeated_itineraries =>
        flights_of(kiwi_data[i]) \subseteq flights.edreams_flights

\* ---------------------------------------------------------------- C29
\* the deduplicated Kiwi collection: of every identity, the first record
\* that carries its lowest price
MinPriceRecords == {kiwi_data[FirstMinIndex(x)] : x \in ids_of(kiwi_data)}

\* C29: the reported "Hubs Distribution (All Kiwi)" is the hub-count
\* distribution of the deduplicated Kiwi collection the other metrics use
\* (the lowest-priced record of every identity), and the reported "Total
\* Kiwi" is the number of unique itineraries of the first deduplication,
\* also when the list holds several records of one identity.
C29_DistributionOverDeduplicated ==
  pc = "done" =>
    /\ total_unique_kiwi = Cardinality(MinPriceRecords)
    /\ \A item \in Range(distribution.hubs_distribution_all) :
         /\ item.v = Cardinality({r \in MinPriceRecords : HubsOf(r) = item.k})
         /\ SameRatio(item.pct, 100 * item.v, Cardinality(MinPriceRecords))
    /\ \A r \in MinPriceRecords :
         \E item \in Range(distribution.hubs_distribution_all) : item.k = HubsOf(r)

\* ---------------------------------------------------------------------------
\* C30: the sessions of the thread pool write distinct files and do not block
\* one another

\* the only session that may have opened the file of this name
OwnerOf(name) == {i \in 1 .. Len(futures) : output_file(futures[i].output_prefix) = name}

\* a session that has not finished can take its next step
CanGoOn(j) == session[j] \in Finished \/ j > Len(futures) \/ ENABLED SessionStep(j)

\* C30: the sessions submitted to the pool have pairwise distinct output files;
\* every file was opened by at most one session, the one it is named after, and
\* holds nothing but that session's response; whatever the other sessions did,
\* exceptions included, a submitted session that has not finished can take its
\* next step, a finished one can be collected once the collection loop runs,
\* only the sessions that raised are reported, and when the pool is left every
\* session has finished and been collected.
C30_SessionsWriteOwnFileAndAreIndependent ==
  /\ \A i, j \in 1 .. Len(futures) :
       i # j => output_file(futures[i].output_prefix) # output_file(futures[j].output_prefix)
  /\ \A name \in DOMAIN files :
       /\ Cardinality(files[name].writers) <= 1
       /\ files[name].writers \subseteq OwnerOf(name)
       /\ files[name].content \in {0} \cup files[name].writers
  /\ \A j \in Sessions : CanGoOn(j)
  /\ \A j \in Sessions :
       (main = "collect" /\ session[j] \in Finished /\ j \notin collected)
         => ENABLED Collect(j)
  /\ reported = {j \in collected : session[j] = "raised"}
  /\ main = "exit" => /\ collected = Sessions
                      /\ \A j \in Sessions : session[j] \in Finished

\* C30 witness: the pool was left with one session that raised and was
\* reported and another that returned with its own file written, both collected
C30_Witness ==
  /\ main = "exit"
  /\ reported # {}
  /\ \E i, j \in Sessions :
       /\ i # j
       /\ session[i] = "raised"
       /\ session[j] = "returned"
       /\ \E name \in DOMAIN files : files[name] = [writers |-> {j}, content |-> j]
       /\ {i, j} \subseteq collected

====
